---------------------------- MODULE Spec2Model ----------------------------
(***************************************************************************)
(* A model of the scheduling and execution core of legator:                *)
(*   - the per-agent concurrency gate   (internal/scheduler/concurrency.go)*)
(*   - the tool action classifiers      (internal/tools: aws, azure, sql)  *)
(*   - the shutdown / drain coordinator (package lifecycle)                *)
(*   - the per-run credential manager   (package vault)                    *)
(* Every subsystem has its own variables, its own actions and its own      *)
(* specification; the other subsystems stay in their initial state.        *)
(***************************************************************************)
EXTENDS Naturals, Integers, Sequences, FiniteSets, TLC

VARIABLES
    \* ---- scheduler.RunTracker and its callers ----
    inflight,     \* RunTracker.inflight: map agentKey -> RunInfo
    mu,           \* RunTracker.mu: the run that holds the lock, or NoHolder
    now,          \* the wall clock read by time.Now()
    pc,           \* per run: where the goroutine that owns the run stands
    runAgent,     \* per run: the agentKey its TryStart was called with
    ret,          \* per run: the value TryStart returned (read once pc says it returned)
    \* ---- tools: one ClassifyAction call ----
    clsTool,      \* the tool whose ClassifyAction is called
    clsArgs,      \* the args map of the call
    clsResult,    \* the ActionClassification returned (or NoResult)
    \* ---- lifecycle.ShutdownManager, its timers and the runs' contexts ----
    cancels,      \* ShutdownManager.cancels: map key -> cancel func (the run it cancels)
    drainTimeout, \* ShutdownManager.drainTimeout
    drainPc,      \* where WaitForDrain stands: idle, loop, cancel, done
    drainRet,     \* the value WaitForDrain returned
    remaining,    \* the local variable remaining of WaitForDrain
    deadlineAt,   \* when the channel of time.After(drainTimeout) becomes ready
    tickerStart,  \* when time.NewTicker was called
    tickReady,    \* a tick waits in ticker.C
    cancelCalls,  \* per run: how often its context's cancel func was invoked
    regKey,       \* per run: the key it registered under (or NoKey)
    \* ---- vault.CredentialManager, the Vault server and the key memory ----
    leases,       \* CredentialManager.leases
    sshKeys,      \* CredentialManager.sshKeys: references into keyMem
    keyMem,       \* the byte buffers of the generated private keys
    vaultLeases,  \* the leases that are live at the Vault server
    nextLease,    \* the next lease id the Vault server hands out
    credPc,       \* where Cleanup stands: idle, revoke, returned
    credIdx,      \* the position of Cleanup's loop over m.leases
    errs,         \* the errors Cleanup has collected
    ctxCancelled, \* the context passed to Cleanup is cancelled
    callLeases,   \* m.leases when Cleanup was called
    callKeys,     \* m.sshKeys when Cleanup was called
    outcome,      \* per lease: how its RevokeLease call ended
    revokeCalls,   \* per lease: the RevokeLease calls Cleanup made for it
    \* ---- approval.Manager: one RequestApproval call and its record ----
    apPc,         \* where RequestApproval stands: idle, waiting, returned
    apPhase,      \* ApprovalRequest.Status.Phase of the record ("" before it exists)
    apDecidedBy,  \* ApprovalRequest.Status.DecidedBy of the record
    apDeadline,   \* when the timeout of the request elapses
    apCtxDone,    \* the caller's context is cancelled
    apResult,     \* the result RequestApproval returned
    apErr,        \* the error RequestApproval returned ("" for nil)
    apWrites,      \* the status writes the manager made to the record
    \* ---- reporter.EscalationEngine: one Escalate call ----
    escPc,        \* where Escalate stands: idle, waiting, returned
    escConfig,    \* req.Agent.Spec.Guardrails.Escalation (NoEscalation for nil)
    escDeadline,  \* when the channel of time.After(timeout) becomes ready
    escCtxDone,   \* the run's context is cancelled
    escResult,     \* the EscalationResult
    \* ---- scheduler.Debouncer and the goroutines that call ShouldFire ----
    debWindow,    \* Debouncer.window
    debLast,      \* Debouncer.last: map key -> time of the last fire
    debMu,        \* Debouncer.mu: the caller that holds the lock, or NoHolder
    debPc,        \* per caller: idle, check, store
    debKey,       \* per caller: the key of its ShouldFire call
    debNow,       \* per caller: the local variable now of ShouldFire
    debHist,       \* the calls that returned, in order: op, key, time
    \* ---- scheduler.WebhookHandler, one request at a time, and its consumer ----
    hookAgentMap, \* WebhookHandler.agentMap: map source -> list of agent keys
    hookTriggers, \* WebhookHandler.triggers: the buffered channel, oldest first
    hookPc,       \* where ServeHTTP stands: idle, loop, done
    hookReq,      \* the request that is served
    hookAgents,   \* the local variable agents of ServeHTTP
    hookIdx,      \* the position of the loop over agents
    hookResp,     \* the response: status code, agents, triggered
    hookReads,     \* the triggers the scheduler has read from the channel
    \* ---- retention.Controller and the AgentRun records it scans ----
    agentRuns,    \* the AgentRuns of the cluster: map run name -> record
    nextRun,      \* the name the next AgentRun gets
    retConfig,    \* Controller.config: TTL, MaxDeleteBatch, PreserveMinPerAgent
    scanResult,   \* the ScanResult of the last doScan
    sweeps,       \* the scans made so far
    deletedRuns,  \* the AgentRuns that client.Delete removed: run name -> agent key
    listed,        \* client.List of the last doScan returned no error
    \* ---- scheduler: schedule evaluation of one agent, and jitter ----
    schAgent,     \* the InfraAgent: Paused, Cron, Interval, Timezone, LastRunTime
    schCall,      \* the last NextRun or IsDue call: op, now and what it returned
    schDispatches,\* the runs the scheduler dispatched for the agent
    jitCall,       \* the last ApplyJitter call: arguments, random draw and result
    \* the multi-cluster client factory (internal/multicluster/client.go)
    secretRv,       \* secret id -> resourceVersion of the Secret in the management cluster
    cfCache,        \* ClientFactory.cache: cacheKey -> client
    cfPc,           \* caller -> position in ClientForEnvironment
    cfEnv,          \* caller -> the AgentEnvironment of its call
    cfSecret,       \* caller -> the Secret its call read
    cfRet,          \* the last return of ClientForEnvironment: client, error
    invalPending,   \* secret id -> invalidated since the last call for it began
    cfFirst,         \* caller -> its call is the first for its secret after an invalidation
    \* ---- the cleanup chain of a run (RunConfig.Cleanup) ----
    chLinks,        \* the links of the chain: for each, the errors it returns
    chPc,           \* where the combined cleanup stands: idle, loop, done
    chIdx,          \* the position of the loop over the links
    chCalls,        \* the links invoked so far, in the order of the calls
    chAllErrs,      \* allErrs of the combined cleanup
    \* ---- connectivity.Manager ----
    connCall,        \* the last PreRunCheck call: arguments, network, result
    \* ---- rbac.Engine ----
    rbacEngine,     \* the Engine: constructed or not, its policies
    rbacCall,        \* the last Authorize call: user, action, resource, decision
    \* ---- the API server, for the retention controller ----
    undeletable     \* the AgentRuns whose client.Delete fails every time

trackerVars  == <<inflight, mu, now, pc, runAgent, ret>>
classifyVars == <<clsTool, clsArgs, clsResult>>
drainVars    == <<cancels, drainTimeout, drainPc, drainRet, remaining, deadlineAt,
                  tickerStart, tickReady, cancelCalls, regKey>>

credVars     == <<leases, sshKeys, keyMem, vaultLeases, nextLease, credPc, credIdx,
                  errs, ctxCancelled, callLeases, callKeys, outcome, revokeCalls>>

approvalVars == <<apPc, apPhase, apDecidedBy, apDeadline, apCtxDone, apResult, apErr,
                  apWrites>>

\* the subsystems added after the first four
escalationVars == <<escPc, escConfig, escDeadline, escCtxDone, escResult>>

debouncerVars == <<debWindow, debLast, debMu, debPc, debKey, debNow, debHist>>

hookVars == <<hookAgentMap, hookTriggers, hookPc, hookReq, hookAgents, hookIdx, hookResp,
              hookReads>>

retentionVars == <<agentRuns, nextRun, retConfig, scanResult, sweeps, deletedRuns,
                   listed>>

scheduleVars == <<schAgent, schCall, schDispatches, jitCall>>

cacheVars == <<secretRv, cfCache, cfPc, cfEnv, cfSecret, cfRet, invalPending, cfFirst>>

chainVars == <<chLinks, chPc, chIdx, chCalls, chAllErrs>>

connVars == <<connCall>>
rbacVars == <<rbacEngine, rbacCall>>

serverVars == <<undeletable>>

\* the subsystems added after the retention controller
newVars == <<scheduleVars, cacheVars, chainVars, connVars, rbacVars, serverVars>>

\* the subsystems added after the webhook handler
laterVars == <<retentionVars, newVars>>

restVars == <<approvalVars, escalationVars, debouncerVars, hookVars, laterVars>>

vars == <<trackerVars, classifyVars, drainVars, credVars, restVars>>

\* the tracker without its clock
trackerRest == <<inflight, mu, pc, runAgent, ret>>

\* what the actions of one subsystem leave alone
nonTracker  == <<classifyVars, drainVars, credVars, restVars>>
nonClassify == <<trackerVars, drainVars, credVars, restVars>>
nonDrain    == <<classifyVars, credVars, restVars>>
nonCred     == <<trackerVars, classifyVars, drainVars, restVars>>

nonApprovalRest == <<classifyVars, drainVars, credVars, escalationVars, debouncerVars,
                     hookVars, laterVars>>
nonApproval     == <<trackerVars, nonApprovalRest>>

nonEscalationRest == <<classifyVars, drainVars, credVars, approvalVars, debouncerVars,
                       hookVars, laterVars>>
nonEscalation     == <<trackerVars, nonEscalationRest>>

nonDebouncerRest == <<classifyVars, drainVars, credVars, approvalVars, escalationVars,
                      hookVars, laterVars>>
nonDebouncer     == <<trackerVars, nonDebouncerRest>>

\* the handler owns its debouncer
nonHookRest == <<classifyVars, drainVars, credVars, approvalVars, escalationVars,
                 laterVars>>
nonHook     == <<trackerVars, debouncerVars, nonHookRest>>

nonRetentionRest == <<classifyVars, drainVars, credVars, approvalVars, escalationVars,
                      debouncerVars, hookVars, newVars>>
nonRetention     == <<trackerVars, nonRetentionRest>>

\* the subsystems up to the retention controller, without the tracker
oldVars == <<classifyVars, drainVars, credVars, approvalVars, escalationVars,
             debouncerVars, hookVars, retentionVars>>

nonScheduleRest == <<oldVars, cacheVars, chainVars, connVars, rbacVars, serverVars>>
nonSchedule     == <<trackerVars, nonScheduleRest>>

nonCacheRest == <<oldVars, scheduleVars, chainVars, connVars, rbacVars, serverVars>>
nonCache     == <<trackerVars, nonCacheRest>>

nonChainRest == <<oldVars, scheduleVars, cacheVars, connVars, rbacVars, serverVars>>
nonChain     == <<trackerVars, nonChainRest>>

nonConnRest == <<oldVars, scheduleVars, cacheVars, chainVars, rbacVars, serverVars>>
nonConn     == <<trackerVars, nonConnRest>>

nonRbacRest == <<oldVars, scheduleVars, cacheVars, chainVars, connVars, serverVars>>
nonRbac     == <<trackerVars, nonRbacRest>>

----------------------------------------------------------------------------
(***************************************************************************)
(* Bounds of the model.                                                    *)
(***************************************************************************)
MaxRuns == 3        \* run names run-1 .. run-MaxRuns, one TryStart call each
MaxTime == 3        \* the clock stops at MaxTime
MaxAge  == 1        \* CleanStale is called with maxAge in 0 .. MaxAge
MaxDrainTimeout == 3 \* drainTimeout is in 0 .. MaxDrainTimeout clock units
MaxDrainRuns == 2   \* the runs admitted while the drain coordinator is watched
MaxLeases == 2      \* the Vault server hands out lease ids 1 .. MaxLeases
MaxKeys == 2        \* at most MaxKeys ephemeral keys are generated
KeyLen == 2         \* a private key has KeyLen bytes
MaxCallers == 2     \* the goroutines that call ShouldFire
MaxWindow == 2      \* NewDebouncer is called with a window in 0 .. MaxWindow
MaxCalls == 3       \* the calls of ShouldFire and Reset that are recorded
MaxRegistrations == 2 \* the agent list of a webhook source has at most this length
MaxReads == 2       \* the scheduler reads at most MaxReads triggers from the channel

AgentKeys == {"ns/agent1", "ns/agent2"}
Runs      == 1 .. MaxRuns
NoHolder  == 0

----------------------------------------------------------------------------
(***************************************************************************)
(* scheduler.RunTracker                                                    *)
(***************************************************************************)

\* RunInfo{RunName, StartedAt}
RunInfo(runName, startedAt) == [RunName |-> runName, StartedAt |-> startedAt]

\* NewRunTracker: an empty map
NewRunTracker == << >>

\* run names are handed out in the order of the TryStart calls
NextToStart(r) == pc[r] = "idle" /\ (IF r = 1 THEN TRUE ELSE pc[r - 1] # "idle")

\* t.inflight[agentKey] = info
MapPut(m, k, v) == [x \in (DOMAIN m) \cup {k} |-> IF x = k THEN v ELSE m[x]]

\* a delete that removes nothing
MapDeleteNothing(m, k) == m

\* delete(t.inflight, agentKey)
MapDelete(m, k) == [x \in (DOMAIN m) \ {k} |-> m[x]]

\* IsRunning: _, exists := t.inflight[agentKey]
IsRunning(agentKey) == agentKey \in DOMAIN inflight

\* InFlightCount: len(t.inflight)
InFlightCount == Cardinality(DOMAIN inflight)

\* a lock that excludes nobody
MuIgnored == TRUE

\* t.mu.Lock() succeeds only when nobody holds the lock
MuFree == mu = NoHolder

TrackerInit ==
    /\ inflight = NewRunTracker
    /\ mu = NoHolder
    /\ now = 0
    /\ pc = [r \in Runs |-> "idle"]
    /\ runAgent = [r \in Runs |-> "ns/agent1"]
    /\ ret = [r \in Runs |-> FALSE]

\* A caller (scheduler tick or webhook consumer) calls TryStart(agentKey, run-r)
\* and takes the lock (line 54).
TryStartLock(r, agentKey) ==
    /\ NextToStart(r)
    /\ MuFree
    /\ mu' = r
    /\ pc' = [pc EXCEPT ![r] = "check"]
    /\ runAgent' = [runAgent EXCEPT ![r] = agentKey]
    /\ UNCHANGED <<inflight, now, ret>>
    /\ UNCHANGED nonTracker

\* lines 57-59: the key exists: return false (the deferred Unlock runs)
TryStartReject(r) ==
    /\ pc[r] = "check"
    /\ IsRunning(runAgent[r])
    /\ ret' = [ret EXCEPT ![r] = FALSE]
    /\ pc' = [pc EXCEPT ![r] = "rejected"]
    /\ mu' = IF mu = r THEN NoHolder ELSE mu
    /\ UNCHANGED <<inflight, now, runAgent>>
    /\ UNCHANGED nonTracker

\* line 57: the key is absent: fall through to the insert
TryStartAbsent(r) ==
    /\ pc[r] = "check"
    /\ ~IsRunning(runAgent[r])
    /\ pc' = [pc EXCEPT ![r] = "insert"]
    /\ UNCHANGED <<inflight, mu, now, runAgent, ret>>
    /\ UNCHANGED nonTracker

\* lines 61-65: insert RunInfo{runName, time.Now()}, return true, Unlock
TryStartInsert(r) ==
    /\ pc[r] = "insert"
    /\ inflight' = MapPut(inflight, runAgent[r], RunInfo(r, now))
    /\ ret' = [ret EXCEPT ![r] = TRUE]
    /\ pc' = [pc EXCEPT ![r] = "executing"]
    /\ mu' = IF mu = r THEN NoHolder ELSE mu
    /\ UNCHANGED <<now, runAgent>>
    /\ UNCHANGED nonTracker

\* TryStart as one step: the whole critical section, lines 54-66
TryStart(r, agentKey) ==
    /\ NextToStart(r)
    /\ MuFree
    /\ runAgent' = [runAgent EXCEPT ![r] = agentKey]
    /\ IF IsRunning(agentKey)
       THEN /\ ret' = [ret EXCEPT ![r] = FALSE]
            /\ pc' = [pc EXCEPT ![r] = "rejected"]
            /\ UNCHANGED inflight
       ELSE /\ inflight' = MapPut(inflight, agentKey, RunInfo(r, now))
            /\ ret' = [ret EXCEPT ![r] = TRUE]
            /\ pc' = [pc EXCEPT ![r] = "executing"]
    /\ UNCHANGED <<mu, now>>
    /\ UNCHANGED nonTracker

\* Complete(agentKey), called by the goroutine of run r when the run ends
Complete(r) ==
    /\ pc[r] = "executing"
    /\ MuFree
    /\ inflight' = MapDelete(inflight, runAgent[r])
    /\ pc' = [pc EXCEPT ![r] = "finished"]
    /\ UNCHANGED <<mu, now, runAgent, ret>>
    /\ UNCHANGED nonTracker

\* The runner of run r dies without calling Complete.
Crash(r) ==
    /\ pc[r] = "executing"
    /\ pc' = [pc EXCEPT ![r] = "crashed"]
    /\ UNCHANGED <<inflight, mu, now, runAgent, ret>>
    /\ UNCHANGED nonTracker

\* the keys CleanStale deletes: now.Sub(info.StartedAt) > maxAge
StaleKeys(maxAge) ==
    {k \in DOMAIN inflight : now - inflight[k].StartedAt > maxAge}

\* CleanStale(maxAge), called by the stale-sweep routine
CleanStale(maxAge) ==
    /\ MuFree
    /\ StaleKeys(maxAge) # {}
    /\ inflight' = [k \in (DOMAIN inflight) \ StaleKeys(maxAge) |-> inflight[k]]
    /\ UNCHANGED <<mu, now, pc, runAgent, ret>>
    /\ UNCHANGED nonTracker

\* time passes
Tick ==
    /\ now < MaxTime
    /\ now' = now + 1
    /\ UNCHANGED <<inflight, mu, pc, runAgent, ret>>
    /\ UNCHANGED nonTracker

TrackerNext ==
    \/ \E r \in Runs, a \in AgentKeys : TryStartLock(r, a)
    \/ \E r \in Runs : TryStartReject(r)
    \/ \E r \in Runs : TryStartAbsent(r)
    \/ \E r \in Runs : TryStartInsert(r)
    \/ \E r \in Runs : Complete(r)
    \/ \E r \in Runs : Crash(r)
    \/ \E maxAge \in 0 .. MaxAge : CleanStale(maxAge)
    \/ Tick

----------------------------------------------------------------------------
(***************************************************************************)
(* tools: the action classifiers                                           *)
(***************************************************************************)

\* ActionTier
TierRead                == "read"
TierServiceMutation     == "service-mutation"
TierDestructiveMutation == "destructive-mutation"
TierDataMutation        == "data-mutation"

\* ActionClassification{Tier, Blocked}; Blocked is false unless set
ActionClassification(tier, blocked) == [Tier |-> tier, Blocked |-> blocked]

NoResult == [Tier |-> "unclassified", Blocked |-> FALSE]

\* key := service + "." + command
ActionKey(a, b) == a \o "." \o b

\* ---- AWS: the three tables of classifyAWSAction ----
awsDestructive ==
    { "ec2.terminate-instances", "ec2.delete-security-group", "ec2.delete-vpc",
      "ec2.delete-subnet", "rds.delete-db-instance", "rds.delete-db-cluster",
      "iam.delete-user", "iam.delete-role", "iam.delete-policy",
      "iam.put-user-policy", "iam.attach-role-policy", "iam.create-access-key",
      "lambda.delete-function", "ecs.delete-cluster", "ecs.delete-service",
      "cloudformation.delete-stack" }

awsDataMutation ==
    { "s3.rb", "s3.rm", "s3api.delete-bucket", "s3api.delete-object",
      "s3api.delete-objects", "dynamodb.delete-table", "dynamodb.delete-item",
      "rds.delete-db-snapshot", "rds.delete-db-cluster-snapshot" }

awsServiceMutation ==
    { "ec2.start-instances", "ec2.stop-instances", "ec2.reboot-instances",
      "ec2.create-security-group", "ec2.authorize-security-group-ingress",
      "ec2.revoke-security-group-ingress", "ecs.update-service",
      "lambda.update-function-code", "lambda.update-function-configuration",
      "rds.reboot-db-instance", "rds.modify-db-instance",
      "autoscaling.set-desired-capacity", "autoscaling.update-auto-scaling-group" }

\* the lookups of classifyAWSAction, in the order the code makes them
awsIsDataMutation(key)    == key \in awsDataMutation
awsIsDestructive(key)     == key \in awsDestructive
awsIsServiceMutation(key) == key \in awsServiceMutation

\* the data-mutation branch without Blocked: true
classifyAWSActionUnblocked(service, command) ==
    LET key == ActionKey(service, command) IN
    IF awsIsDataMutation(key) THEN ActionClassification(TierDataMutation, FALSE)
    ELSE IF awsIsDestructive(key) THEN ActionClassification(TierDestructiveMutation, FALSE)
    ELSE IF awsIsServiceMutation(key) THEN ActionClassification(TierServiceMutation, FALSE)
    ELSE ActionClassification(TierRead, FALSE)

classifyAWSAction(service, command) ==
    LET key == ActionKey(service, command) IN
    IF awsIsDataMutation(key) THEN ActionClassification(TierDataMutation, TRUE)
    ELSE IF awsIsDestructive(key) THEN ActionClassification(TierDestructiveMutation, FALSE)
    ELSE IF awsIsServiceMutation(key) THEN ActionClassification(TierServiceMutation, FALSE)
    ELSE ActionClassification(TierRead, FALSE)

\* args["service"].(string): a missing entry reads as ""
ArgString(args, name) == IF name \in DOMAIN args THEN args[name] ELSE ""

AWSClassifyAction(args) ==
    classifyAWSAction(ArgString(args, "service"), ArgString(args, "command"))

\* ---- Azure: the three tables of classifyAzureAction ----
azureDestructive ==
    { "vm.delete", "group.delete", "aks.delete", "network.vnet.delete",
      "network.nsg.delete", "sql.server.delete", "sql.db.delete",
      "keyvault.delete", "ad.sp.delete", "role.assignment.delete",
      "role.definition.delete", "functionapp.delete", "webapp.delete",
      "cosmosdb.delete" }

azureDataMutation ==
    { "storage.account.delete", "storage.blob.delete", "storage.container.delete",
      "sql.db.delete", "cosmosdb.collection.delete", "cosmosdb.database.delete",
      "keyvault.secret.delete", "keyvault.key.delete", "backup.vault.delete" }

azureServiceMutation ==
    { "vm.start", "vm.stop", "vm.deallocate", "vm.restart", "vm.resize",
      "aks.scale", "aks.upgrade", "webapp.restart", "functionapp.restart",
      "network.nsg.rule.create", "network.nsg.rule.delete",
      "network.nsg.rule.update", "sql.db.update", "role.assignment.create",
      "ad.sp.create" }

azureIsDataMutation(key)    == key \in azureDataMutation
azureIsDestructive(key)     == key \in azureDestructive
azureIsServiceMutation(key) == key \in azureServiceMutation

classifyAzureAction(group, command) ==
    LET key == ActionKey(group, command) IN
    IF azureIsDataMutation(key) THEN ActionClassification(TierDataMutation, TRUE)
    ELSE IF azureIsDestructive(key) THEN ActionClassification(TierDestructiveMutation, FALSE)
    ELSE IF azureIsServiceMutation(key) THEN ActionClassification(TierServiceMutation, FALSE)
    ELSE ActionClassification(TierRead, FALSE)

AzureClassifyAction(args) ==
    classifyAzureAction(ArgString(args, "group"), ArgString(args, "command"))

\* ---- SQL: classification by leading keyword.  The SQL tool's source is not
\* among the files; this part follows the specification (section 4.3) and the
\* tool's tests.
sqlUpper ==
    [ w \in { "select", "Select", "SELECT", "show", "SHOW", "DESCRIBE", "DESC",
              "EXPLAIN", "insert", "Insert", "INSERT", "UPDATE", "DELETE",
              "MERGE", "UPSERT", "COPY", "drop", "Drop", "DROP", "TRUNCATE",
              "CREATE", "ALTER", "ANALYZE", "VACUUM", "GRANT", "SET", "CALL",
              "TABLE", "INDEX", "index", "users", "" } |->
      CASE w \in {"select", "Select"} -> "SELECT"
        [] w = "show"                 -> "SHOW"
        [] w \in {"insert", "Insert"} -> "INSERT"
        [] w \in {"drop", "Drop"}     -> "DROP"
        [] w = "index"                -> "INDEX"
        [] w = "users"                -> "USERS"
        [] OTHER                      -> w ]

SQLWords == DOMAIN sqlUpper

\* strings.ToUpper of one word of the query
ToUpper(w) == sqlUpper[w]

sqlRead            == {"SELECT", "SHOW", "DESCRIBE", "DESC", "EXPLAIN"}
sqlDataMutation    == {"INSERT", "UPDATE", "DELETE", "MERGE", "UPSERT", "COPY"}
sqlDestructive     == {"DROP", "TRUNCATE", "CREATE", "ALTER"}
sqlServiceMutation == {"ANALYZE", "VACUUM", "GRANT", "SET"}

\* a query is its sequence of words, leading blanks already trimmed
classifySQLQuery(query) ==
    LET kw == IF Len(query) >= 1 THEN ToUpper(query[1]) ELSE ""
        w2 == IF Len(query) >= 2 THEN ToUpper(query[2]) ELSE ""
    IN  IF kw \in sqlRead THEN TierRead
        ELSE IF kw \in sqlDataMutation THEN TierDataMutation
        ELSE IF kw = "CREATE" /\ w2 = "INDEX" THEN TierServiceMutation
        ELSE IF kw \in sqlServiceMutation THEN TierServiceMutation
        ELSE IF kw \in sqlDestructive THEN TierDestructiveMutation
        ELSE TierDestructiveMutation

\* SQLTool.ClassifyAction: the tool is read-only, every other tier is blocked
SQLClassifyAction(args) ==
    LET tier == classifySQLQuery(args["query"])
    IN  ActionClassification(tier, tier # TierRead)

\* ---- the inputs the classifiers are applied to ----
AWSServices ==
    { "ec2", "rds", "iam", "lambda", "ecs", "cloudformation", "s3", "s3api",
      "dynamodb", "autoscaling", "sts", "kms", "" }
AWSCommands ==
    { "terminate-instances", "delete-db-instance", "delete-user",
      "create-access-key", "delete-function", "delete-stack", "rb", "rm",
      "delete-object", "delete-table", "delete-db-snapshot", "start-instances",
      "update-service", "modify-db-instance", "set-desired-capacity",
      "describe-instances", "list-users", "get-caller-identity", "ls",
      "delete-volume", "schedule-key-deletion", "" }
AWSInputs ==
    { [service |-> sv, command |-> c] : sv \in AWSServices, c \in AWSCommands }
    \cup { [command |-> "rm"], [service |-> "s3"] }

AzureGroups ==
    { "vm", "group", "aks", "network", "sql", "keyvault", "storage", "cosmosdb",
      "backup", "webapp", "role", "disk", "" }
AzureCommands ==
    { "delete", "vnet.delete", "db.delete", "account.delete", "blob.delete",
      "database.delete", "secret.delete", "vault.delete", "start", "restart",
      "scale", "nsg.rule.create", "db.update", "assignment.create", "list",
      "show", "account list", "purge", "" }
AzureInputs ==
    { [group |-> g, command |-> c] : g \in AzureGroups, c \in AzureCommands }

SQLInputs ==
    { [query |-> <<w>>] : w \in SQLWords }
    \cup { [query |-> <<w, x>>] : w \in SQLWords, x \in {"TABLE", "INDEX", "index", "users"} }

\* AWSCLITool.Capability().SupportedTiers
AWSSupportedTiers == {TierRead, TierServiceMutation, TierDestructiveMutation}

\* AzureCLITool.Capability().SupportedTiers
AzureSupportedTiers == {TierRead, TierServiceMutation, TierDestructiveMutation}

\* SQLTool.Capability().SupportedTiers, as TestSQLTool_Capability requires it
SQLSupportedTiers == {TierRead}

ClassifyIdle ==
    /\ clsTool = "aws"
    /\ clsArgs = [service |-> "", command |-> ""]
    /\ clsResult = NoResult

\* a proposed tool call: the tool and its args
ClassifyInit ==
    /\ clsTool \in {"aws", "azure", "sql"}
    /\ clsArgs \in (CASE clsTool = "aws"   -> AWSInputs
                      [] clsTool = "azure" -> AzureInputs
                      [] clsTool = "sql"   -> SQLInputs)
    /\ clsResult = NoResult

ClassifyAWS ==
    /\ clsTool = "aws"
    /\ clsResult = NoResult
    /\ clsResult' = AWSClassifyAction(clsArgs)
    /\ UNCHANGED <<clsTool, clsArgs>>
    /\ UNCHANGED nonClassify

ClassifyAzure ==
    /\ clsTool = "azure"
    /\ clsResult = NoResult
    /\ clsResult' = AzureClassifyAction(clsArgs)
    /\ UNCHANGED <<clsTool, clsArgs>>
    /\ UNCHANGED nonClassify

ClassifySQL ==
    /\ clsTool = "sql"
    /\ clsResult = NoResult
    /\ clsResult' = SQLClassifyAction(clsArgs)
    /\ UNCHANGED <<clsTool, clsArgs>>
    /\ UNCHANGED nonClassify

ClassifyNext == ClassifyAWS \/ ClassifyAzure \/ ClassifySQL

----------------------------------------------------------------------------
(***************************************************************************)
(* lifecycle.ShutdownManager                                               *)
(* The clock counts units of 250 ms, so the 500 ms ticker fires every      *)
(* PollInterval = 2 units.  A goroutine blocked in select takes a ready    *)
(* case before the clock advances again (DrainTick).                       *)
(***************************************************************************)
PollInterval == 2

RunKeys == {"run-a", "run-b"}
NoKey   == "unregistered"
Gone    == "deregistered"

\* NewShutdownManager(tracker, drainTimeout, log)
DrainIdle ==
    /\ cancels = << >>
    /\ drainPc = "idle"
    /\ drainRet = 0
    /\ remaining = 0
    /\ deadlineAt = 0
    /\ tickerStart = 0
    /\ tickReady = FALSE
    /\ cancelCalls = [r \in Runs |-> 0]
    /\ regKey = [r \in Runs |-> NoKey]

DrainInit ==
    /\ drainTimeout \in 0 .. MaxDrainTimeout
    /\ DrainIdle

\* ActiveRuns: len(s.cancels)
ActiveRuns == Cardinality(DOMAIN cancels)

\* RegisterRun(key, cancel), called for an admitted run r with the cancel func
\* of r's context
RegisterRun(r, key) ==
    /\ pc[r] = "executing"
    /\ regKey[r] = NoKey
    /\ cancels' = MapPut(cancels, key, r)
    /\ regKey' = [regKey EXCEPT ![r] = key]
    /\ UNCHANGED <<drainTimeout, drainPc, drainRet, remaining, deadlineAt,
                   tickerStart, tickReady, cancelCalls>>
    /\ UNCHANGED <<trackerVars, nonDrain>>

\* DeregisterRun(key), called for run r with the key it registered under
DeregisterRun(r) ==
    /\ regKey[r] \in RunKeys
    /\ cancels' = MapDelete(cancels, regKey[r])
    /\ regKey' = [regKey EXCEPT ![r] = Gone]
    /\ UNCHANGED <<drainTimeout, drainPc, drainRet, remaining, deadlineAt,
                   tickerStart, tickReady, cancelCalls>>
    /\ UNCHANGED <<trackerVars, nonDrain>>

\* a select without the deadline case
DeadlineNever == FALSE

\* the channel of time.After(drainTimeout) is ready
DeadlineReady == now >= deadlineAt

\* WaitForDrain, lines 81-94: the first read of the count; the timers start
DrainEnter ==
    /\ drainPc = "idle"
    /\ MuFree
    /\ now + drainTimeout <= MaxTime
    /\ IF InFlightCount = 0
       THEN /\ drainPc' = "done"
            /\ drainRet' = 0
            /\ UNCHANGED <<deadlineAt, tickerStart>>
       ELSE /\ drainPc' = "loop"
            /\ deadlineAt' = now + drainTimeout
            /\ tickerStart' = now
            /\ UNCHANGED drainRet
    /\ UNCHANGED <<cancels, drainTimeout, remaining, tickReady, cancelCalls, regKey>>
    /\ UNCHANGED <<trackerVars, nonDrain>>

\* case <-deadline, lines 98-107: read the count again
DrainDeadline ==
    /\ drainPc = "loop"
    /\ DeadlineReady
    /\ MuFree
    /\ remaining' = InFlightCount
    /\ IF InFlightCount > 0
       THEN /\ drainPc' = "cancel"
            /\ UNCHANGED drainRet
       ELSE /\ drainPc' = "done"
            /\ drainRet' = 0
    /\ UNCHANGED <<cancels, drainTimeout, deadlineAt, tickerStart, tickReady,
                   cancelCalls, regKey>>
    /\ UNCHANGED <<trackerVars, nonDrain>>

\* the runs whose cancel func is in the map
Registered == {cancels[k] : k \in DOMAIN cancels}

\* cancelAll, lines 119-129: call every cancel func, then clear the map
cancelAll ==
    /\ cancelCalls' = [r \in Runs |->
          cancelCalls[r] + Cardinality({k \in DOMAIN cancels : cancels[k] = r})]
    /\ cancels' = << >>

\* lines 104-105: s.cancelAll(); return remaining
DrainCancelAll ==
    /\ drainPc = "cancel"
    /\ cancelAll
    /\ drainRet' = remaining
    /\ drainPc' = "done"
    /\ UNCHANGED <<drainTimeout, remaining, deadlineAt, tickerStart, tickReady, regKey>>
    /\ UNCHANGED <<trackerVars, nonDrain>>

\* case <-ticker.C, lines 109-113
DrainPoll ==
    /\ drainPc = "loop"
    /\ tickReady
    /\ MuFree
    /\ tickReady' = FALSE
    /\ IF InFlightCount = 0
       THEN /\ drainPc' = "done"
            /\ drainRet' = 0
       ELSE UNCHANGED <<drainPc, drainRet>>
    /\ UNCHANGED <<cancels, drainTimeout, remaining, deadlineAt, tickerStart,
                   cancelCalls, regKey>>
    /\ UNCHANGED <<trackerVars, nonDrain>>

\* WaitForDrain has a ready case to take, or is between its last read and return
DrainUrgent ==
    \/ drainPc = "cancel"
    \/ drainPc = "loop" /\ (tickReady \/ DeadlineReady)

\* the ticker puts a tick in its channel every PollInterval
TickerFires(t) ==
    drainPc = "loop" /\ t > tickerStart /\ (t - tickerStart) % PollInterval = 0

\* the process is alive until WaitForDrain has returned
Alive == drainPc # "done"

\* time passes while the drain coordinator may be waiting
DrainTick ==
    /\ now < MaxTime
    /\ Alive
    /\ ~DrainUrgent
    /\ now' = now + 1
    /\ tickReady' = (tickReady \/ TickerFires(now + 1))
    /\ UNCHANGED <<inflight, mu, pc, runAgent, ret>>
    /\ UNCHANGED <<cancels, drainTimeout, drainPc, drainRet, remaining, deadlineAt,
                   tickerStart, cancelCalls, regKey>>
    /\ UNCHANGED nonDrain

\* the steps of WaitForDrain
DrainStep == DrainEnter \/ DrainDeadline \/ DrainCancelAll \/ DrainPoll

DrainRuns == 1 .. MaxDrainRuns

DrainNext ==
    \/ \E r \in DrainRuns, a \in AgentKeys : Alive /\ TryStart(r, a)
    \/ \E r \in DrainRuns : Alive /\ Complete(r)
    \/ \E r \in DrainRuns, key \in RunKeys : Alive /\ RegisterRun(r, key)
    \/ \E r \in DrainRuns : Alive /\ DeregisterRun(r)
    \/ DrainEnter
    \/ DrainDeadline
    \/ DrainCancelAll
    \/ DrainPoll
    \/ DrainTick

----------------------------------------------------------------------------
(***************************************************************************)
(* vault.CredentialManager and vault.Client.RevokeLease                    *)
(***************************************************************************)
NoLease  == 0       \* the empty lease id ""
LeaseIds == 1 .. MaxLeases

\* NewCredentialManager(client)
CredInit ==
    /\ leases = << >>
    /\ sshKeys = << >>
    /\ keyMem = << >>
    /\ vaultLeases = {}
    /\ nextLease = 1
    /\ credPc = "idle"
    /\ credIdx = 1
    /\ errs = << >>
    /\ ctxCancelled = FALSE
    /\ callLeases = << >>
    /\ callKeys = << >>
    /\ outcome = [l \in LeaseIds |-> "none"]
    /\ revokeCalls = [l \in LeaseIds |-> 0]

\* ActiveLeaseCount: len(m.leases)
ActiveLeaseCount == Len(leases)

\* m.mu is free: no Cleanup is under way
CredMuFree == credPc # "revoke"

\* RequestDBCredentials, lines 750-769: the server creates a lease and answers
\* with its id (withId) or without one; an error tracks nothing, and a request
\* made with a cancelled context is an error
RequestDBCredentials(ok, withId) ==
    /\ CredMuFree
    /\ credPc = "idle"
    /\ ctxCancelled => ~ok
    /\ nextLease <= MaxLeases
    /\ IF ok
       THEN /\ vaultLeases' = vaultLeases \cup {nextLease}
            /\ nextLease' = nextLease + 1
            /\ leases' = IF withId THEN Append(leases, nextLease) ELSE leases
       ELSE UNCHANGED <<vaultLeases, nextLease, leases>>
    /\ UNCHANGED <<sshKeys, keyMem, credPc, credIdx, errs, ctxCancelled, callLeases,
                   callKeys, outcome, revokeCalls>>
    /\ UNCHANGED nonCred

\* RequestSSHCredentials, lines 681-724: generate a key, have it signed; the
\* key is tracked only when the signing succeeded (line 711)
RequestSSHCredentials(key, signed) ==
    /\ CredMuFree
    /\ credPc = "idle"
    /\ ctxCancelled => ~signed
    /\ Len(keyMem) < MaxKeys
    /\ keyMem' = Append(keyMem, key)
    /\ sshKeys' = IF signed THEN Append(sshKeys, Len(keyMem) + 1) ELSE sshKeys
    /\ UNCHANGED <<leases, vaultLeases, nextLease, credPc, credIdx, errs, ctxCancelled,
                   callLeases, callKeys, outcome, revokeCalls>>
    /\ UNCHANGED nonCred

\* the run's context is cancelled (deadline, shutdown)
CancelContext ==
    /\ ~ctxCancelled
    /\ ctxCancelled' = TRUE
    /\ UNCHANGED <<leases, sshKeys, keyMem, vaultLeases, nextLease, credPc, credIdx,
                   errs, callLeases, callKeys, outcome, revokeCalls>>
    /\ UNCHANGED nonCred

\* Cleanup(ctx), lines 780-783: take the lock
CleanupLock ==
    /\ credPc = "idle"
    /\ credPc' = "revoke"
    /\ credIdx' = 1
    /\ errs' = << >>
    /\ callLeases' = leases
    /\ callKeys' = sshKeys
    /\ outcome' = [l \in LeaseIds |-> "none"]
    /\ revokeCalls' = [l \in LeaseIds |-> 0]
    /\ UNCHANGED <<leases, sshKeys, keyMem, vaultLeases, nextLease, ctxCancelled>>
    /\ UNCHANGED nonCred

\* Client.RevokeLease(ctx, leaseID), lines 317-331, and doRequest: how the call
\* ends.  A request made with a cancelled context fails before it is sent; a
\* request that is sent reaches the server (net) or not, and the server revokes
\* the lease (204) or answers with an error (srv).
RevokeLease(cancelled, leaseID, net, srv) ==
    IF leaseID = NoLease THEN "skipped"
    ELSE IF cancelled THEN "context canceled"
    ELSE IF ~net THEN "unreachable"
    ELSE IF ~srv THEN "server error"
    ELSE "revoked"

\* a loop that gives up at the first error
NextLeaseIdxStopOnError(idx, failed) == IF failed THEN Len(leases) + 1 ELSE idx + 1

\* the loop of Cleanup goes on with the next lease, whatever the outcome
NextLeaseIdx(idx, failed) == idx + 1

\* Cleanup, lines 786-790: one turn of the loop over m.leases
CleanupRevoke(net, srv) ==
    /\ credPc = "revoke"
    /\ credIdx <= Len(leases)
    /\ LET leaseID == leases[credIdx]
           res == RevokeLease(ctxCancelled, leaseID, net, srv)
           failed == res \notin {"revoked", "skipped"}
       IN  /\ outcome' = [outcome EXCEPT ![leaseID] = res]
           /\ revokeCalls' = [revokeCalls EXCEPT ![leaseID] = @ + 1]
           /\ vaultLeases' = IF res = "revoked" THEN vaultLeases \ {leaseID} ELSE vaultLeases
           /\ errs' = IF failed THEN Append(errs, leaseID) ELSE errs
           /\ credIdx' = NextLeaseIdx(credIdx, failed)
    /\ UNCHANGED <<leases, sshKeys, keyMem, nextLease, credPc, ctxCancelled,
                   callLeases, callKeys>>
    /\ UNCHANGED nonCred

\* a loop that stops one byte short
ZeroKeyShort(buf) == [j \in DOMAIN buf |-> IF j < Len(buf) THEN 0 ELSE buf[j]]

\* lines 795-797: every byte of a key buffer is overwritten with zero
ZeroKey(buf) == [j \in DOMAIN buf |-> 0]

\* Cleanup, lines 791-801: clear the leases, zero the tracked keys, clear the
\* key list, return errs
CleanupZero ==
    /\ credPc = "revoke"
    /\ credIdx > Len(leases)
    /\ leases' = << >>
    /\ keyMem' = [i \in DOMAIN keyMem |->
                    IF \E n \in DOMAIN sshKeys : sshKeys[n] = i
                    THEN ZeroKey(keyMem[i]) ELSE keyMem[i]]
    /\ sshKeys' = << >>
    /\ credPc' = "returned"
    /\ UNCHANGED <<vaultLeases, nextLease, credIdx, errs, ctxCancelled, callLeases,
                   callKeys, outcome, revokeCalls>>
    /\ UNCHANGED nonCred

\* a byte of key material: zero or not
Bytes == {0, 255}

\* the buffers ed25519.GenerateKey can return
KeyBuffers == [1 .. KeyLen -> Bytes]

CredNext ==
    \/ \E ok \in BOOLEAN, withId \in BOOLEAN : RequestDBCredentials(ok, withId)
    \/ \E key \in KeyBuffers, signed \in BOOLEAN : RequestSSHCredentials(key, signed)
    \/ CancelContext
    \/ CleanupLock
    \/ \E net \in BOOLEAN, srv \in BOOLEAN : CleanupRevoke(net, srv)
    \/ CleanupZero

----------------------------------------------------------------------------
(***************************************************************************)
(* approval.Manager.RequestApproval.  The source of the manager is not in  *)
(* the repository snapshot: the protocol is the one of the specification   *)
(* (section 4.4) and of internal/approval/approval_test.go.                *)
(***************************************************************************)
ApprovalPhasePending  == "Pending"
ApprovalPhaseApproved == "Approved"
ApprovalPhaseDenied   == "Denied"
ApprovalPhaseExpired  == "Expired"

\* the result of RequestApproval: Approved, Phase, DecidedBy
ApprovalResult(approved, phase, decidedBy) ==
    [Approved |-> approved, Phase |-> phase, DecidedBy |-> decidedBy]

NoApprovalResult == ApprovalResult(FALSE, "", "")

\* the deciders of the model: a user, or the manager itself on timeout
Deciders == {"test-user", "security-team"}
SystemDecider == "system"

\* no RequestApproval call has been made
ApprovalIdle ==
    /\ apPc = "idle"
    /\ apPhase = ""
    /\ apDecidedBy = ""
    /\ apDeadline = 0
    /\ apCtxDone = FALSE
    /\ apResult = NoApprovalResult
    /\ apErr = ""
    /\ apWrites = 0

\* RequestApproval(ctx, params): the record is created with phase Pending and
\* the wait starts; params.Timeout is timeout clock units
RequestApproval(timeout) ==
    /\ apPc = "idle"
    /\ ~apCtxDone
    /\ now + timeout <= MaxTime
    /\ apPc' = "waiting"
    /\ apPhase' = ApprovalPhasePending
    /\ apDeadline' = now + timeout
    /\ UNCHANGED <<apDecidedBy, apCtxDone, apResult, apErr, apWrites>>
    /\ UNCHANGED nonApproval

\* a user approves or denies the pending request (a status update)
Decide(phase, who) ==
    /\ apPhase = ApprovalPhasePending
    /\ apPhase' = phase
    /\ apDecidedBy' = who
    /\ UNCHANGED <<apPc, apDeadline, apCtxDone, apResult, apErr, apWrites>>
    /\ UNCHANGED nonApproval

\* the caller's context is cancelled
ApprovalCancel ==
    /\ ~apCtxDone
    /\ apCtxDone' = TRUE
    /\ UNCHANGED <<apPc, apPhase, apDecidedBy, apDeadline, apResult, apErr, apWrites>>
    /\ UNCHANGED nonApproval

\* a wait without the timeout case
ApDeadlineNever == FALSE

\* the timeout of the request has elapsed
ApDeadlineReady == now >= apDeadline

\* a poll that finds a decision returns it; a poll that finds Pending changes
\* nothing and the wait goes on
ApprovalPoll ==
    /\ apPc = "waiting"
    /\ apPhase \in {ApprovalPhaseApproved, ApprovalPhaseDenied}
    /\ apPc' = "returned"
    /\ apResult' = ApprovalResult(apPhase = ApprovalPhaseApproved, apPhase, apDecidedBy)
    /\ apErr' = ""
    /\ UNCHANGED <<apPhase, apDecidedBy, apDeadline, apCtxDone, apWrites>>
    /\ UNCHANGED nonApproval

\* timeout: the manager writes phase Expired with decider "system" and
\* returns Expired
ApprovalTimeout ==
    /\ apPc = "waiting"
    /\ ApDeadlineReady
    /\ apPhase' = ApprovalPhaseExpired
    /\ apDecidedBy' = SystemDecider
    /\ apWrites' = apWrites + 1
    /\ apPc' = "returned"
    /\ apResult' = ApprovalResult(FALSE, ApprovalPhaseExpired, "")
    /\ apErr' = ""
    /\ UNCHANGED <<apDeadline, apCtxDone>>
    /\ UNCHANGED nonApproval

\* a cancellation path that marks the record
PhaseOnCancelExpire(phase) == ApprovalPhaseExpired

\* the phase of the record after a return on cancellation: no write
PhaseOnCancel(phase) == phase

\* the caller's context is cancelled: return Expired and the context's error,
\* without a write
ApprovalCtxDone ==
    /\ apPc = "waiting"
    /\ apCtxDone
    /\ apPc' = "returned"
    /\ apResult' = ApprovalResult(FALSE, ApprovalPhaseExpired, "")
    /\ apErr' = "context canceled"
    /\ apPhase' = PhaseOnCancel(apPhase)
    /\ apWrites' = IF apPhase' = apPhase THEN apWrites ELSE apWrites + 1
    /\ UNCHANGED <<apDecidedBy, apDeadline>>
    /\ UNCHANGED <<apCtxDone>>
    /\ UNCHANGED nonApproval

\* a case of the wait's select is ready: the clock does not run past it
ApprovalUrgent == apPc = "waiting" /\ (ApDeadlineReady \/ apCtxDone)

\* time passes
ApprovalTick ==
    /\ now < MaxTime
    /\ ~ApprovalUrgent
    /\ now' = now + 1
    /\ UNCHANGED trackerRest
    /\ UNCHANGED approvalVars
    /\ UNCHANGED nonApprovalRest

ApprovalNext ==
    \/ \E timeout \in 0 .. MaxTime : RequestApproval(timeout)
    \/ \E phase \in {ApprovalPhaseApproved, ApprovalPhaseDenied}, who \in Deciders :
          Decide(phase, who)
    \/ ApprovalCancel
    \/ ApprovalPoll
    \/ ApprovalTimeout
    \/ ApprovalCtxDone
    \/ ApprovalTick

----------------------------------------------------------------------------
(***************************************************************************)
(* reporter.EscalationEngine.Escalate (internal/reporter/escalation.go)    *)
(***************************************************************************)
TimeoutCancel  == "cancel"
TimeoutProceed == "proceed"
TimeoutRetry   == "retry"

\* +kubebuilder:validation:Enum=cancel;proceed;retry
TimeoutActions == {TimeoutCancel, TimeoutProceed, TimeoutRetry}

\* the clock unit of the escalation wait is 150 s: time.ParseDuration on the
\* Timeout strings of the model; the other strings do not parse
ParsedDurations == [s \in {"0s", "150s", "300s", "450s"} |->
                       CASE s = "0s" -> 0 [] s = "150s" -> 1 [] s = "300s" -> 2
                         [] s = "450s" -> 3]
TimeoutStrings == (DOMAIN ParsedDurations) \cup {"", "soon"}

\* 5 * time.Minute, in clock units
DefaultEscalationTimeout == 2

\* lines 136-139: the timeout, or the default when it does not parse
EscalationTimeout(s) ==
    IF s \in DOMAIN ParsedDurations THEN ParsedDurations[s] ELSE DefaultEscalationTimeout

\* EscalationSpec: Timeout, OnTimeout
EscalationSpec(timeout, onTimeout) == [Timeout |-> timeout, OnTimeout |-> onTimeout]

\* a nil *EscalationSpec
NoEscalation == [Timeout |-> "", OnTimeout |-> "nil"]

\* EscalationResult: Sent, TimedOut, Policy, Error ("" for nil)
EscalationResult(sent, timedOut, policy, error) ==
    [Sent |-> sent, TimedOut |-> timedOut, Policy |-> policy, Error |-> error]

\* result := &EscalationResult{}
EmptyEscalationResult == EscalationResult(FALSE, FALSE, "", "")

EscalationIdle ==
    /\ escPc = "idle"
    /\ escConfig = NoEscalation
    /\ escDeadline = 0
    /\ escCtxDone = FALSE
    /\ escResult = EmptyEscalationResult

\* Escalate, lines 75-84: no escalation config, return the empty result
EscalateNoConfig ==
    /\ escPc = "idle"
    /\ escPc' = "returned"
    /\ escConfig' = NoEscalation
    /\ escResult' = EmptyEscalationResult
    /\ UNCHANGED <<escDeadline, escCtxDone>>
    /\ UNCHANGED nonEscalation

\* Escalate, lines 75-147: the report is sent (or not: no channel, a send
\* error), the timeout is parsed and the wait starts
EscalateSend(config, hasChannel, sendOk) ==
    /\ escPc = "idle"
    /\ now + EscalationTimeout(config.Timeout) <= MaxTime
    /\ escConfig' = config
    /\ escResult' =
          IF ~hasChannel THEN EmptyEscalationResult
          ELSE IF sendOk /\ ~escCtxDone THEN EscalationResult(TRUE, FALSE, "", "")
          ELSE EscalationResult(FALSE, FALSE, "", "send failed")
    /\ escDeadline' = now + EscalationTimeout(config.Timeout)
    /\ escPc' = "waiting"
    /\ UNCHANGED escCtxDone
    /\ UNCHANGED nonEscalation

\* the run's context is cancelled
EscalationCancel ==
    /\ ~escCtxDone
    /\ escCtxDone' = TRUE
    /\ UNCHANGED <<escPc, escConfig, escDeadline, escResult>>
    /\ UNCHANGED nonEscalation

\* a select without the ctx.Done() case
EscCtxNever == FALSE

\* case <-ctx.Done() is ready
EscCtxReady == escCtxDone

\* case <-time.After(timeout) is ready
EscDeadlineReady == now >= escDeadline

\* lines 150-152: result.Error = ctx.Err(); return result
EscalateCtxDone ==
    /\ escPc = "waiting"
    /\ EscCtxReady
    /\ escResult' = [escResult EXCEPT !.Error = "context canceled"]
    /\ escPc' = "returned"
    /\ UNCHANGED <<escConfig, escDeadline, escCtxDone>>
    /\ UNCHANGED nonEscalation

\* a policy that is always cancel
TimeoutPolicyCancel(onTimeout) == TimeoutCancel

\* line 158: result.Policy = escalation.OnTimeout
TimeoutPolicy(onTimeout) == onTimeout

\* lines 153-164: result.TimedOut = true, the policy is applied
EscalateTimeout ==
    /\ escPc = "waiting"
    /\ EscDeadlineReady
    /\ escResult' = [escResult EXCEPT !.TimedOut = TRUE,
                                      !.Policy = TimeoutPolicy(escConfig.OnTimeout)]
    /\ escPc' = "returned"
    /\ UNCHANGED <<escConfig, escDeadline, escCtxDone>>
    /\ UNCHANGED nonEscalation

\* a case of the select is ready: the clock does not run past it
EscalationUrgent == escPc = "waiting" /\ (EscDeadlineReady \/ EscCtxReady)

\* time passes
EscalationTick ==
    /\ now < MaxTime
    /\ ~EscalationUrgent
    /\ now' = now + 1
    /\ UNCHANGED trackerRest
    /\ UNCHANGED escalationVars
    /\ UNCHANGED nonEscalationRest

EscalationNext ==
    \/ EscalateNoConfig
    \/ \E t \in TimeoutStrings, a \in TimeoutActions, hasChannel \in BOOLEAN,
          sendOk \in BOOLEAN : EscalateSend(EscalationSpec(t, a), hasChannel, sendOk)
    \/ EscalationCancel
    \/ EscalateCtxDone
    \/ EscalateTimeout
    \/ EscalationTick

----------------------------------------------------------------------------
(***************************************************************************)
(* scheduler.Debouncer (package scheduler, webhook.go)                     *)
(***************************************************************************)
\* the clock unit of the debouncer is 15 s: 30 * time.Second
DefaultDebounceWindow == 2

DebounceKeys == {"alerts/ns/agent1", "alerts/ns/agent2"}
Callers == 1 .. MaxCallers

\* NewDebouncer(window): window <= 0 selects the default
NewDebouncer(window) ==
    /\ debWindow = (IF window <= 0 THEN DefaultDebounceWindow ELSE window)
    /\ debLast = << >>
    /\ debMu = NoHolder
    /\ debPc = [c \in Callers |-> "idle"]
    /\ debKey = [c \in Callers |-> ""]
    /\ debNow = [c \in Callers |-> 0]
    /\ debHist = << >>

\* the debouncer of an idle system
DebouncerIdle == NewDebouncer(0)

\* the debouncer of NewWebhookHandler(log, debounceWindow)
DebouncerInit == \E window \in 0 .. MaxWindow : NewDebouncer(window)

\* a call that returned: ShouldFire true ("fire") or false ("drop"), or Reset
DebEvent(op, key, time) == [op |-> op, key |-> key, time |-> time]

\* a Debouncer without its mutex
DebMuIgnored == TRUE

\* d.mu is free
DebMuFree == debMu = NoHolder

\* ShouldFire(key), lines 205-206: d.mu.Lock()
ShouldFireLock(c, key) ==
    /\ debPc[c] = "idle"
    /\ Len(debHist) < MaxCalls
    /\ DebMuFree
    /\ debMu' = c
    /\ debPc' = [debPc EXCEPT ![c] = "check"]
    /\ debKey' = [debKey EXCEPT ![c] = key]
    /\ UNCHANGED <<debWindow, debLast, debNow, debHist>>
    /\ UNCHANGED nonDebouncer

\* line 210: now.Sub(last) < d.window
InWindow(t, last) == t - last < debWindow

\* lines 208-212: read the clock and the last fire; inside the window the call
\* returns false
ShouldFireCheck(c) ==
    /\ debPc[c] = "check"
    /\ debNow' = [debNow EXCEPT ![c] = now]
    /\ IF debKey[c] \in DOMAIN debLast /\ InWindow(now, debLast[debKey[c]])
       THEN /\ debPc' = [debPc EXCEPT ![c] = "idle"]
            /\ debMu' = IF debMu = c THEN NoHolder ELSE debMu
            /\ debHist' = Append(debHist, DebEvent("drop", debKey[c], now))
       ELSE /\ debPc' = [debPc EXCEPT ![c] = "store"]
            /\ UNCHANGED <<debMu, debHist>>
    /\ UNCHANGED <<debWindow, debLast, debKey>>
    /\ UNCHANGED nonDebouncer

\* lines 214-215: d.last[key] = now; return true
ShouldFireStore(c) ==
    /\ debPc[c] = "store"
    /\ debLast' = MapPut(debLast, debKey[c], debNow[c])
    /\ debPc' = [debPc EXCEPT ![c] = "idle"]
    /\ debMu' = IF debMu = c THEN NoHolder ELSE debMu
    /\ debHist' = Append(debHist, DebEvent("fire", debKey[c], debNow[c]))
    /\ UNCHANGED <<debWindow, debKey, debNow>>
    /\ UNCHANGED nonDebouncer

\* Reset, lines 219-223: d.last = make(map[string]time.Time)
DebouncerReset ==
    /\ DebMuFree
    /\ Len(debHist) < MaxCalls
    /\ debLast # << >>
    /\ debLast' = << >>
    /\ debHist' = Append(debHist, DebEvent("reset", "", now))
    /\ UNCHANGED <<debWindow, debMu, debPc, debKey, debNow>>
    /\ UNCHANGED nonDebouncer

\* the entries Clean deletes: last.Before(now - 2 * window)
CleanKeys == {k \in DOMAIN debLast : debLast[k] < now - 2 * debWindow}

\* Clean, lines 226-236
DebouncerClean ==
    /\ DebMuFree
    /\ CleanKeys # {}
    /\ debLast' = [k \in (DOMAIN debLast) \ CleanKeys |-> debLast[k]]
    /\ UNCHANGED <<debWindow, debMu, debPc, debKey, debNow, debHist>>
    /\ UNCHANGED nonDebouncer

\* time passes
DebouncerTick ==
    /\ now < MaxTime
    /\ now' = now + 1
    /\ UNCHANGED trackerRest
    /\ UNCHANGED debouncerVars
    /\ UNCHANGED nonDebouncerRest

DebouncerNext ==
    \/ \E c \in Callers, key \in DebounceKeys : ShouldFireLock(c, key)
    \/ \E c \in Callers : ShouldFireCheck(c)
    \/ \E c \in Callers : ShouldFireStore(c)
    \/ DebouncerReset
    \/ DebouncerClean
    \/ DebouncerTick

----------------------------------------------------------------------------
(***************************************************************************)
(* scheduler.WebhookHandler (package scheduler, webhook.go).  ServeHTTP    *)
(* uses the Debouncer above; the history debHist is kept by the callers of *)
(* the debouncer specification only.                                       *)
(***************************************************************************)
\* make(chan WebhookTrigger, 100)
TriggerCapacity == 100

StatusAccepted         == 202
StatusBadRequest       == 400
StatusMethodNotAllowed == 405

MethodPost == "POST"
Methods    == {MethodPost, "GET"}

\* a URL path is the sequence of its segments: "/webhook/alerts" is
\* <<"webhook", "alerts">> and "/webhook/" is <<"webhook", "">>
Paths == { <<"webhook", "alerts">>, <<"webhook", "unknown">>, <<"webhook", "">>,
           <<"health", "alerts">> }

RECURSIVE JoinPath(_)
\* the segments joined by "/"
JoinPath(segs) ==
    IF Len(segs) = 0 THEN ""
    ELSE IF Len(segs) = 1 THEN segs[1]
    ELSE segs[1] \o "/" \o JoinPath(Tail(segs))

\* a source taken from any path of two segments or more
extractSourceAnyPrefix(path) == IF Len(path) < 2 THEN "" ELSE JoinPath(Tail(path))

\* extractSource(path), lines 168-178: what follows the prefix "/webhook/"
extractSource(path) ==
    IF Len(path) < 2 \/ path[1] # "webhook" THEN "" ELSE JoinPath(Tail(path))

\* the source agents register for, and the agent that registers (once or more)
Sources == {"alerts"}
HookAgentKeys == {"ns/agent1"}

\* WebhookTrigger: AgentKey, Source
WebhookTrigger(agentKey, source) == [AgentKey |-> agentKey, Source |-> source]

\* debounceKey := fmt.Sprintf("%s/%s/%s", source, agentKey.Namespace, agentKey.Name)
DebounceKey(source, agentKey) == source \o "/" \o agentKey

\* the http request: method, path, and whether its body can be read (a body
\* that cannot be read is tried with one path)
HookRequests ==
    [method : Methods, path : Paths, bodyOk : {TRUE}]
    \cup [method : {MethodPost}, path : {<<"webhook", "alerts">>}, bodyOk : {FALSE}]

NoRequest == [method |-> "", path |-> << >>, bodyOk |-> TRUE]

\* the response: status code and the fields agents and triggered of the body
HookResponse(status, agents, triggered) ==
    [status |-> status, agents |-> agents, triggered |-> triggered]

NoResponse == HookResponse(0, 0, 0)

\* a channel that holds n triggers nobody has read yet
Backlog(n) == [i \in 1 .. n |-> WebhookTrigger("ns/agent1", "alerts")]

\* NewWebhookHandler, lines 48-55, with backlog triggers left in the channel
NewWebhookHandler(backlog) ==
    /\ hookAgentMap = << >>
    /\ hookTriggers = Backlog(backlog)
    /\ hookPc = "idle"
    /\ hookReq = NoRequest
    /\ hookAgents = << >>
    /\ hookIdx = 1
    /\ hookResp = NoResponse
    /\ hookReads = 0

HookIdle == NewWebhookHandler(0)

\* the handler with an empty or an almost full trigger channel
HookInit ==
    \E backlog \in {0, TriggerCapacity - 1} : NewWebhookHandler(backlog)

\* RegisterAgent(source, agentKey), lines 64-68
RegisterAgent(source, agentKey) ==
    /\ hookPc # "loop" \/ TRUE
    /\ LET old == IF source \in DOMAIN hookAgentMap THEN hookAgentMap[source] ELSE << >>
       IN  /\ Len(old) < MaxRegistrations
           /\ hookAgentMap' = MapPut(hookAgentMap, source, Append(old, agentKey))
    /\ UNCHANGED <<hookTriggers, hookPc, hookReq, hookAgents, hookIdx, hookResp, hookReads>>
    /\ UNCHANGED nonHook

\* UnregisterAgent(agentKey), lines 71-87
UnregisterAgent(agentKey) ==
    /\ \E s \in DOMAIN hookAgentMap : \E i \in DOMAIN hookAgentMap[s] :
          hookAgentMap[s][i] = agentKey
    /\ LET filtered(s) == SelectSeq(hookAgentMap[s], LAMBDA a : a # agentKey)
           kept == {s \in DOMAIN hookAgentMap : Len(filtered(s)) > 0}
       IN  hookAgentMap' = [s \in kept |-> filtered(s)]
    /\ UNCHANGED <<hookTriggers, hookPc, hookReq, hookAgents, hookIdx, hookResp, hookReads>>
    /\ UNCHANGED nonHook

\* ServeHTTP, lines 94-129: the method, the source, the body and the lookup
ServeHTTP(req) ==
    /\ hookPc \in {"idle", "done"}
    /\ hookReq' = req
    /\ hookIdx' = 1
    /\ LET source == extractSource(req.path)
           found  == source \in DOMAIN hookAgentMap /\ Len(hookAgentMap[source]) > 0
       IN  IF req.method # MethodPost
           THEN /\ hookResp' = HookResponse(StatusMethodNotAllowed, 0, 0)
                /\ hookPc' = "done"
                /\ hookAgents' = << >>
           ELSE IF source = ""
           THEN /\ hookResp' = HookResponse(StatusBadRequest, 0, 0)
                /\ hookPc' = "done"
                /\ hookAgents' = << >>
           ELSE IF ~req.bodyOk
           THEN /\ hookResp' = HookResponse(StatusBadRequest, 0, 0)
                /\ hookPc' = "done"
                /\ hookAgents' = << >>
           ELSE IF ~found
           THEN /\ hookResp' = HookResponse(StatusAccepted, 0, 0)
                /\ hookPc' = "done"
                /\ hookAgents' = << >>
           ELSE /\ hookResp' = HookResponse(0, 0, 0)
                /\ hookPc' = "loop"
                /\ hookAgents' = hookAgentMap[source]
    /\ UNCHANGED <<hookAgentMap, hookTriggers, hookReads>>
    /\ UNCHANGED nonHook

\* a send that does not look at the capacity
SendUnbounded(ch, v) == Append(ch, v)

\* lines 137-148: select { case h.triggers <- trigger: ... default: drop }
SelectSend(ch, v) == IF Len(ch) < TriggerCapacity THEN Append(ch, v) ELSE ch

\* ShouldFire(key) as one step: TRUE when the call fires
Fires(key) == ~(key \in DOMAIN debLast /\ InWindow(now, debLast[key]))

\* ServeHTTP, lines 133-155: one turn of the loop over agents
ServeLoop ==
    /\ hookPc = "loop"
    /\ hookIdx <= Len(hookAgents)
    /\ LET agentKey == hookAgents[hookIdx]
           source   == extractSource(hookReq.path)
           key      == DebounceKey(source, agentKey)
           sent     == SelectSend(hookTriggers, WebhookTrigger(agentKey, source))
       IN  IF Fires(key)
           THEN /\ debLast' = MapPut(debLast, key, now)
                /\ hookTriggers' = sent
                /\ hookResp' = [hookResp EXCEPT !.triggered =
                                   IF sent # hookTriggers THEN @ + 1 ELSE @]
           ELSE UNCHANGED <<debLast, hookTriggers, hookResp>>
    /\ hookIdx' = hookIdx + 1
    /\ UNCHANGED <<hookAgentMap, hookPc, hookReq, hookAgents, hookReads>>
    /\ UNCHANGED <<debWindow, debMu, debPc, debKey, debNow, debHist>>
    /\ UNCHANGED <<trackerVars, nonHookRest>>

\* ServeHTTP, lines 157-163: 202 and the body
ServeRespond ==
    /\ hookPc = "loop"
    /\ hookIdx > Len(hookAgents)
    /\ hookResp' = [hookResp EXCEPT !.status = StatusAccepted, !.agents = Len(hookAgents)]
    /\ hookPc' = "done"
    /\ hookAgents' = << >>
    /\ hookIdx' = 1
    /\ UNCHANGED <<hookAgentMap, hookTriggers, hookReq, hookReads>>
    /\ UNCHANGED nonHook

\* the scheduler reads one trigger from Triggers()
ConsumeTrigger ==
    /\ Len(hookTriggers) > 0
    /\ hookReads < MaxReads
    /\ hookTriggers' = Tail(hookTriggers)
    /\ hookReads' = hookReads + 1
    /\ UNCHANGED <<hookAgentMap, hookPc, hookReq, hookAgents, hookIdx, hookResp>>
    /\ UNCHANGED nonHook

\* time passes
HookTick ==
    /\ now < MaxTime
    /\ now' = now + 1
    /\ UNCHANGED trackerRest
    /\ UNCHANGED <<debouncerVars, hookVars>>
    /\ UNCHANGED nonHookRest

\* the steps of ServeHTTP after the request is taken
ServeStep == ServeLoop \/ ServeRespond

HookNext ==
    \/ \E s \in Sources, a \in HookAgentKeys : RegisterAgent(s, a)
    \/ \E a \in HookAgentKeys : UnregisterAgent(a)
    \/ \E req \in HookRequests : ServeHTTP(req)
    \/ ServeLoop
    \/ ServeRespond
    \/ ConsumeTrigger
    \/ HookTick

-----------------------------------------------------------------------------
(***************************************************************************)
(* retention: the controller that deletes old AgentRuns                    *)
(* The clock unit is one TTL-sized step; run records are created and moved *)
(* through their phases by the runner.                                     *)
(***************************************************************************)

MaxRetRuns  == 3
MaxTTL      == 1
MaxBatch    == 2
MaxPreserve == 2
MaxSweeps   == 2
MaxRetTime  == 2

RunPhasePending   == "Pending"
RunPhaseRunning   == "Running"
RunPhaseSucceeded == "Succeeded"
RunPhaseFailed    == "Failed"
RunPhaseEscalated == "Escalated"
RunPhaseBlocked   == "Blocked"

RunPhases == {RunPhasePending, RunPhaseRunning, RunPhaseSucceeded, RunPhaseFailed,
              RunPhaseEscalated, RunPhaseBlocked}

\* every phase counts as terminal
isTerminalAlways(phase) == TRUE

\* isTerminal, lines 217-227
isTerminal(phase) ==
    phase \in {RunPhaseSucceeded, RunPhaseFailed, RunPhaseEscalated, RunPhaseBlocked}

\* Status.CompletionTime == nil
NoTime == -1

\* the terminal phases the runner of the model writes
FinishPhases == {RunPhaseSucceeded}

RetNamespaces == {"ns"}
AgentRefs     == {"agent-a", "agent-b"}

\* the fields of an AgentRun that doScan reads
AgentRun(namespace, agentRef, phase, created, completed) ==
    [Namespace |-> namespace, AgentRef |-> agentRef, Phase |-> phase,
     CreationTimestamp |-> created, CompletionTime |-> completed]

\* Config, lines 35-47
Config(ttl, maxDeleteBatch, preserveMinPerAgent) ==
    [TTL |-> ttl, MaxDeleteBatch |-> maxDeleteBatch,
     PreserveMinPerAgent |-> preserveMinPerAgent]

\* ScanResult, lines 110-115
ScanResult(scanned, eligible, deleted, errors) ==
    [Scanned |-> scanned, Eligible |-> eligible, Deleted |-> deleted, Errors |-> errors]

Configs ==
    {Config(ttl, m, n) : ttl \in 1 .. MaxTTL, m \in 1 .. MaxBatch, n \in 0 .. MaxPreserve}

\* NewController before the first scan, with no AgentRun in the cluster
RetentionIdle ==
    /\ agentRuns = << >>
    /\ nextRun = 1
    /\ retConfig = Config(MaxTTL, MaxBatch, 0)
    /\ scanResult = ScanResult(0, 0, 0, 0)
    /\ sweeps = 0
    /\ deletedRuns = << >>
    /\ listed = FALSE

\* NewController(c, cfg, log), lines 68-75
RetentionInit ==
    /\ agentRuns = << >>
    /\ nextRun = 1
    /\ retConfig \in Configs
    /\ scanResult = ScanResult(0, 0, 0, 0)
    /\ sweeps = 0
    /\ deletedRuns = << >>
    /\ listed = FALSE

\* the runs of an agent that have no terminal phase yet
NonTerminalRuns(namespace, agentRef) ==
    {r \in DOMAIN agentRuns :
        /\ agentRuns[r].Namespace = namespace /\ agentRuns[r].AgentRef = agentRef
        /\ agentRuns[r].Phase \in {RunPhasePending, RunPhaseRunning}}

\* the runner creates the AgentRun of a new execution; the concurrency gate
\* admits one run per agent at a time
CreateRun(namespace, agentRef) ==
    /\ nextRun <= MaxRetRuns
    /\ NonTerminalRuns(namespace, agentRef) = {}
    /\ agentRuns' = MapPut(agentRuns, nextRun,
                           AgentRun(namespace, agentRef, RunPhasePending, now, NoTime))
    /\ nextRun' = nextRun + 1
    /\ UNCHANGED <<retConfig, scanResult, sweeps, deletedRuns, listed>>
    /\ UNCHANGED nonRetention

\* the runner starts the execution
StartRun(r) ==
    /\ r \in DOMAIN agentRuns
    /\ agentRuns[r].Phase = RunPhasePending
    /\ agentRuns' = [agentRuns EXCEPT ![r].Phase = RunPhaseRunning]
    /\ UNCHANGED <<nextRun, retConfig, scanResult, sweeps, deletedRuns, listed>>
    /\ UNCHANGED nonRetention

\* the runner writes a terminal phase, with or without a completion time
FinishRun(r, phase, stamped) ==
    /\ r \in DOMAIN agentRuns
    /\ ~isTerminal(agentRuns[r].Phase)
    /\ isTerminal(phase)
    /\ agentRuns' = [agentRuns EXCEPT ![r].Phase = phase,
                                      ![r].CompletionTime = IF stamped THEN now ELSE NoTime]
    /\ UNCHANGED <<nextRun, retConfig, scanResult, sweeps, deletedRuns, listed>>
    /\ UNCHANGED nonRetention

\* agentKey := fmt.Sprintf("%s/%s", run.Namespace, run.Spec.AgentRef), line 155
RunAgentKey(run) == run.Namespace \o "/" \o run.AgentRef

\* byAgent, lines 152-157: the listed runs of each agent key
byAgent(items) ==
    [k \in {RunAgentKey(items[r]) : r \in DOMAIN items} |->
        {r \in DOMAIN items : RunAgentKey(items[r]) = k}]

\* the sequences that hold every element of S once
Orderings(S) ==
    {f \in [1 .. Cardinality(S) -> S] : \A i, j \in DOMAIN f : i # j => f[i] # f[j]}

\* sort.Slice with less = CreationTimestamp.After, lines 160-164: newest first,
\* runs of equal creation time in any order
NewestFirst(items, S) ==
    {f \in Orderings(S) :
        \A i, j \in DOMAIN f :
            i < j => ~(items[f[j]].CreationTimestamp > items[f[i]].CreationTimestamp)}

\* no position is preserved
PreservedNever(i, config) == FALSE

\* i < c.config.PreserveMinPerAgent, line 176, with i counted from 0
Preserved(i, config) == i < config.PreserveMinPerAgent

\* lines 180-184: the completion time, or the creation time if there is none
CompletionOf(run) ==
    IF run.CompletionTime = NoTime THEN run.CreationTimestamp ELSE run.CompletionTime

\* completionTime.Time.Before(cutoff), line 186
Expired(run, cutoff) == CompletionOf(run) < cutoff

RECURSIVE EligibleFrom(_, _, _, _, _)
\* the inner loop of lines 169-189 from position i (counted from 1) of the
\* sorted runs of one agent
EligibleFrom(items, runs, i, config, cutoff) ==
    IF i > Len(runs) THEN << >>
    ELSE (IF /\ isTerminal(items[runs[i]].Phase)
             /\ ~Preserved(i - 1, config)
             /\ Expired(items[runs[i]], cutoff)
          THEN <<runs[i]>>
          ELSE << >>) \o EligibleFrom(items, runs, i + 1, config, cutoff)

RECURSIVE ToDelete(_, _, _, _, _)
\* the outer loop of lines 167-190: the agents in the order the map yields them
ToDelete(items, agentOrder, sorted, config, cutoff) ==
    IF agentOrder = << >> THEN << >>
    ELSE EligibleFrom(items, sorted[Head(agentOrder)], 1, config, cutoff)
         \o ToDelete(items, Tail(agentOrder), sorted, config, cutoff)

\* no batch limit
BatchUnlimited(toDelete, config) == toDelete

\* lines 194-197: toDelete[:MaxDeleteBatch]
ApplyBatchLimit(toDelete, config) ==
    IF Len(toDelete) > config.MaxDeleteBatch
    THEN SubSeq(toDelete, 1, config.MaxDeleteBatch)
    ELSE toDelete

SeqRange(s) == {s[i] : i \in DOMAIN s}

\* the orders sort.Slice may leave the runs of every agent in
SortedChoices(items) ==
    LET groups == byAgent(items)
        keys   == DOMAIN groups
    IN  {g \in [keys -> UNION {NewestFirst(items, groups[k]) : k \in keys}] :
            \A k \in keys : g[k] \in NewestFirst(items, groups[k])}

\* doScan, lines 140-145: client.List fails
ScanListError ==
    /\ sweeps < MaxSweeps
    /\ scanResult' = ScanResult(0, 0, 0, 1)
    /\ listed' = FALSE
    /\ sweeps' = sweeps + 1
    /\ UNCHANGED <<agentRuns, nextRun, retConfig, deletedRuns>>
    /\ UNCHANGED nonRetention

\* doScan, lines 136-214: list, group, sort, select, cut to the batch limit and
\* delete, each client.Delete succeeding or failing
doScan ==
    /\ sweeps < MaxSweeps
    /\ LET items  == agentRuns
           cutoff == now - retConfig.TTL
       IN  \E agentOrder \in Orderings(DOMAIN byAgent(items)) :
           \E sorted \in SortedChoices(items) :
               LET toDelete == ToDelete(items, agentOrder, sorted, retConfig, cutoff)
                   batch    == ApplyBatchLimit(toDelete, retConfig)
               IN  \E failed \in SUBSET SeqRange(batch) :
                       LET gone == SeqRange(batch) \ failed IN
                       /\ agentRuns' = [r \in (DOMAIN agentRuns) \ gone |-> agentRuns[r]]
                       /\ deletedRuns' = [r \in (DOMAIN deletedRuns) \cup gone |->
                                             IF r \in gone THEN RunAgentKey(agentRuns[r])
                                             ELSE deletedRuns[r]]
                       /\ scanResult' = ScanResult(Cardinality(DOMAIN items),
                                                   Len(toDelete),
                                                   Cardinality(gone),
                                                   Cardinality(failed))
    /\ listed' = TRUE
    /\ sweeps' = sweeps + 1
    /\ UNCHANGED <<nextRun, retConfig>>
    /\ UNCHANGED nonRetention

\* time passes
RetentionTick ==
    /\ now < MaxRetTime
    /\ now' = now + 1
    /\ UNCHANGED trackerRest
    /\ UNCHANGED retentionVars
    /\ UNCHANGED nonRetentionRest

RetentionNext ==
    \/ \E ns \in RetNamespaces, a \in AgentRefs : CreateRun(ns, a)
    \/ \E r \in 1 .. MaxRetRuns : StartRun(r)
    \/ \E r \in 1 .. MaxRetRuns, phase \in FinishPhases, stamped \in BOOLEAN :
           FinishRun(r, phase, stamped)
    \/ ScanListError
    \/ doScan
    \/ RetentionTick

-----------------------------------------------------------------------------
(***************************************************************************)
(* scheduler: NextRun, IsDue and ApplyJitter                               *)
(* Schedule times are in minutes of the shared clock, time.Time{} is       *)
(* ZeroTime and an error is its message, "" for nil.  Durations of         *)
(* ApplyJitter are in milliseconds.                                        *)
(***************************************************************************)

\* time.Time{}, the zero time
ZeroTime == -1

\* agent.Status.LastRunTime == nil
NeverRun == -2

CronEveryTwo == "*/2 * * * *"
CronNever    == "0 0 30 2 *"
CronExprs    == {"", CronEveryTwo, CronNever, "not a cron"}

\* parser.Parse(expr) returns no error
CronParses(expr) == expr \in {CronEveryTwo, CronNever}

\* sched.Next(t) of robfig/cron: the first fire time after t, or the zero time
\* when the expression has none
CronNext(expr, t) ==
    IF expr = CronEveryTwo THEN ((t \div 2) + 1) * 2 ELSE ZeroTime

\* time.ParseDuration of the interval strings, in minutes
IntervalDurations == [s \in {"1m", "2m"} |-> IF s = "1m" THEN 1 ELSE 2]
IntervalStrings   == {"", "1m", "not-a-duration"}

\* time.LoadLocation knows the name
Timezones     == {"", "UTC", "Not/A/Timezone"}
KnownLocation(tz) == tz = "UTC"

\* the time a call returns, with its error
TimeResult(t, err) == [time |-> t, err |-> err]

\* the answer of IsDue, with its error
DueResult(due, err) == [due |-> due, err |-> err]

\* the fields of an InfraAgent that the scheduler reads
InfraAgent(paused, cronExpr, interval, timezone, lastRunTime) ==
    [Paused |-> paused, Cron |-> cronExpr, Interval |-> interval,
     Timezone |-> timezone, LastRunTime |-> lastRunTime]

SchedAgents ==
    {InfraAgent(p, c, i, tz, l) :
        p \in BOOLEAN, c \in CronExprs, i \in IntervalStrings, tz \in Timezones,
        l \in {NeverRun, 0}}

\* loadTimezone, lines 139-144: the error, "" for nil
loadTimezone(tz) ==
    IF tz = "" \/ tz = "UTC" THEN ""
    ELSE IF KnownLocation(tz) THEN "" ELSE "unknown time zone"

\* nextCronRun, lines 86-93
nextCronRun(expr, t) ==
    IF ~CronParses(expr) THEN TimeResult(ZeroTime, "invalid cron expression")
    ELSE TimeResult(CronNext(expr, t), "")

\* an interval counted from now
nextIntervalRunFromNow(interval, agent, t) ==
    IF interval \notin DOMAIN IntervalDurations
    THEN TimeResult(ZeroTime, "invalid interval")
    ELSE TimeResult(t + IntervalDurations[interval], "")

\* nextIntervalRun, lines 123-135
nextIntervalRun(interval, agent, t) ==
    IF interval \notin DOMAIN IntervalDurations
    THEN TimeResult(ZeroTime, "invalid interval")
    ELSE IF agent.LastRunTime = NeverRun THEN TimeResult(t, "")
    ELSE TimeResult(agent.LastRunTime + IntervalDurations[interval], "")

\* NextRun, lines 27-52
NextRun(agent, t) ==
    IF agent.Paused THEN TimeResult(ZeroTime, "")
    ELSE IF loadTimezone(agent.Timezone) # ""
    THEN TimeResult(ZeroTime, "invalid timezone")
    ELSE IF agent.Cron # "" THEN nextCronRun(agent.Cron, t)
    ELSE IF agent.Interval # "" THEN nextIntervalRun(agent.Interval, agent, t)
    ELSE TimeResult(ZeroTime, "")

\* nextRunAfter, lines 96-117
nextRunAfter(agent, after) ==
    IF loadTimezone(agent.Timezone) # ""
    THEN TimeResult(ZeroTime, loadTimezone(agent.Timezone))
    ELSE IF agent.Cron # "" THEN nextCronRun(agent.Cron, after)
    ELSE IF agent.Interval # ""
    THEN IF agent.Interval \notin DOMAIN IntervalDurations
         THEN TimeResult(ZeroTime, "invalid interval")
         ELSE TimeResult(after + IntervalDurations[agent.Interval], "")
    ELSE TimeResult(ZeroTime, "")

\* a comparison that also holds at the instant itself
NotBefore(t, u) == t >= u

\* now.After(nextAfterLast), line 80
After(t, u) == t > u

\* IsDue, lines 57-81
IsDue(agent, t) ==
    IF agent.Paused THEN DueResult(FALSE, "")
    ELSE IF agent.Cron = "" /\ agent.Interval = "" THEN DueResult(FALSE, "")
    ELSE IF agent.LastRunTime = NeverRun THEN DueResult(TRUE, "")
    ELSE LET nextAfterLast == nextRunAfter(agent, agent.LastRunTime) IN
         IF nextAfterLast.err # "" THEN DueResult(FALSE, nextAfterLast.err)
         ELSE DueResult(nextAfterLast.time # ZeroTime /\ After(t, nextAfterLast.time), "")

\* what a call left behind
SchedCall(op, t, due, time, err) ==
    [op |-> op, now |-> t, due |-> due, time |-> time, err |-> err]

NoSchedCall == SchedCall("none", 0, FALSE, ZeroTime, "")

\* ApplyJitter was not called
NoJitterCall == [scheduled |-> 0, interval |-> 0, percent |-> 0, draw |-> 0, result |-> 0]

\* one agent that is never evaluated
ScheduleIdle ==
    /\ schAgent = InfraAgent(TRUE, "", "", "", NeverRun)
    /\ schCall = NoSchedCall
    /\ schDispatches = 0
    /\ jitCall = NoJitterCall

\* any agent, before the scheduler looks at it
ScheduleInit ==
    /\ schAgent \in SchedAgents
    /\ schCall = NoSchedCall
    /\ schDispatches = 0
    /\ jitCall = NoJitterCall

\* a caller asks for the next run time
CallNextRun ==
    /\ LET r == NextRun(schAgent, now) IN
           schCall' = SchedCall("NextRun", now, FALSE, r.time, r.err)
    /\ UNCHANGED <<schAgent, schDispatches, jitCall>>
    /\ UNCHANGED nonSchedule

\* a caller asks whether the agent is due
CallIsDue ==
    /\ LET r == IsDue(schAgent, now) IN
           schCall' = SchedCall("IsDue", now, r.due, ZeroTime, r.err)
    /\ UNCHANGED <<schAgent, schDispatches, jitCall>>
    /\ UNCHANGED nonSchedule

\* one evaluation of the scheduler: an agent that is due is dispatched and its
\* last run time becomes the dispatch time
Evaluate ==
    /\ IsDue(schAgent, now).due
    /\ schAgent' = [schAgent EXCEPT !.LastRunTime = now]
    /\ schDispatches' = schDispatches + 1
    /\ UNCHANGED <<schCall, jitCall>>
    /\ UNCHANGED nonSchedule

\* time passes, whether or not the scheduler evaluates
ScheduleTick ==
    /\ now < MaxTime
    /\ now' = now + 1
    /\ UNCHANGED trackerRest
    /\ UNCHANGED scheduleVars
    /\ UNCHANGED nonScheduleRest

ScheduleNext ==
    \/ CallNextRun
    \/ CallIsDue
    \/ Evaluate
    \/ ScheduleTick

\* 30 * time.Second
JitterCap == 30000

\* 100 * time.Millisecond
JitterFloor == 100

\* the jitterPercent that replaces a value <= 0
DefaultJitterPercent == 10

JitterIntervals == {0, 500, 990, 1000, 60000, 300000, 600000}
JitterPercents  == {-5, 0, 10, 50}
JitterScheduled == {0, 100000}

\* no cap
CapJitterNone(maxJitter) == maxJitter

\* lines 160-163: the cap of 30 s
CapJitter(maxJitter) == IF maxJitter > JitterCap THEN JitterCap ELSE maxJitter

\* lines 154-163: maxJitter
MaxJitter(interval, jitterPercent) ==
    LET percent == IF jitterPercent <= 0 THEN DefaultJitterPercent ELSE jitterPercent
    IN  CapJitter((interval * percent) \div 100)

\* values of rand.Int63n(n): the ends and the middle of 0 .. n - 1
RandDraws(n) == {0, n \div 2, n - 1}

\* ApplyJitter, lines 153-174, with the value rand.Int63n returned
ApplyJitter(scheduled, interval, jitterPercent, draw) ==
    LET maxJitter == MaxJitter(interval, jitterPercent) IN
    IF maxJitter < JitterFloor THEN scheduled
    ELSE scheduled + (draw - maxJitter \div 2)

\* a caller jitters a scheduled time
CallApplyJitter(scheduled, interval, jitterPercent) ==
    LET maxJitter == MaxJitter(interval, jitterPercent) IN
    /\ \E draw \in (IF maxJitter < JitterFloor THEN {0} ELSE RandDraws(maxJitter)) :
           jitCall' = [scheduled |-> scheduled, interval |-> interval,
                       percent |-> jitterPercent, draw |-> draw,
                       result |-> ApplyJitter(scheduled, interval, jitterPercent, draw)]
    /\ UNCHANGED <<schAgent, schCall, schDispatches>>
    /\ UNCHANGED nonSchedule

JitterNext ==
    \E scheduled \in JitterScheduled, interval \in JitterIntervals,
       jitterPercent \in JitterPercents :
        CallApplyJitter(scheduled, interval, jitterPercent)

----------------------------------------------------------------------------
(***************************************************************************)
(* ClientFactory (internal/multicluster/client.go): the cache of remote    *)
(* clients, keyed by the origin of the kubeconfig they were built from.    *)
(* ClientForEnvironment reads the Secret, looks the key up under the read  *)
(* lock, and on a miss builds the client with no lock held and stores it   *)
(* under the write lock; callers therefore interleave between the lookup   *)
(* and the store.                                                          *)
(***************************************************************************)
MaxFactoryCallers == 2

MaxSecretUpdates == 1

FactoryCallers == 1 .. MaxFactoryCallers

DefaultSecretKey == "kubeconfig"

SecretId(namespace, name) == [namespace |-> namespace, name |-> name]

\* the Secrets of the management cluster
SecretIds == {SecretId("ns1", "s1"), SecretId("ns2", "s1")}

\* the keys of Secret.Data
SecretDataKeys(id) ==
    IF id = SecretId("ns1", "s1") THEN {DefaultSecretKey, "alt"} ELSE {DefaultSecretKey}

\* the bytes of Data[key] of the Secret namespace/name at one resourceVersion
KubeconfigBytes(namespace, name, key, resourceVersion) ==
    [namespace |-> namespace, name |-> name, key |-> key, version |-> resourceVersion]

Secret(namespace, name, resourceVersion) ==
    [namespace |-> namespace, name |-> name, resourceVersion |-> resourceVersion]

NoSecret == Secret("", "", 0)

\* a key that leaves the resourceVersion out
cacheKeyNoVersion(namespace, secretName, secretKey, resourceVersion) ==
    [namespace |-> namespace, secretName |-> secretName, secretKey |-> secretKey,
     resourceVersion |-> 0]

cacheKey(namespace, secretName, secretKey, resourceVersion) ==
    [namespace |-> namespace, secretName |-> secretName, secretKey |-> secretKey,
     resourceVersion |-> resourceVersion]

\* a remote client: the kubeconfig bytes it was built from
RemoteClient(kubeconfig) == [kubeconfig |-> kubeconfig]

\* the nil client
NoClient == RemoteClient(KubeconfigBytes("", "", "", 0))

ClientResult(cl, err) == [client |-> cl, err |-> err]

\* AgentEnvironment: Kind "" is a nil Connection
AgentEnvironment(namespace, kind, secretRef, key) ==
    [Namespace |-> namespace, Kind |-> kind, SecretRef |-> secretRef, Key |-> key]

NoEnvironment == AgentEnvironment("", "", "", "")

FactoryEnvs ==
    {AgentEnvironment("ns1", "in-cluster", "", ""),
     AgentEnvironment("ns1", "ssh", "", ""),
     AgentEnvironment("ns1", "kubeconfig", "", ""),
     AgentEnvironment("ns1", "kubeconfig", "gone", ""),
     AgentEnvironment("ns1", "kubeconfig", "s1", ""),
     AgentEnvironment("ns1", "kubeconfig", "s1", "alt"),
     AgentEnvironment("ns2", "kubeconfig", "s1", ""),
     AgentEnvironment("ns2", "kubeconfig", "s1", "alt")}

\* key := conn.Kubeconfig.Key; if key == "" { key = "kubeconfig" }
SecretKeyOf(env) == IF env.Key = "" THEN DefaultSecretKey ELSE env.Key

\* ck of a call that has read its Secret
CallCacheKey(c) ==
    cacheKey(cfEnv[c].Namespace, cfEnv[c].SecretRef, SecretKeyOf(cfEnv[c]),
             cfSecret[c].resourceVersion)

\* the map without the keys of a set
MapWithout(m, ks) == [x \in DOMAIN m \ ks |-> m[x]]

EmptyCache == [k \in {} |-> NoClient]

\* NewClientFactory; the Secrets exist at their first resourceVersion
CacheInit ==
    /\ secretRv = [id \in SecretIds |-> 1]
    /\ cfCache = EmptyCache
    /\ cfPc = [c \in FactoryCallers |-> "idle"]
    /\ cfEnv = [c \in FactoryCallers |-> NoEnvironment]
    /\ cfSecret = [c \in FactoryCallers |-> NoSecret]
    /\ cfRet = ClientResult(NoClient, "")
    /\ invalPending = [id \in SecretIds |-> "none"]
    /\ cfFirst = [c \in FactoryCallers |-> "no"]

\* the calls that have read the Secret id and have not returned
InFlight(id) ==
    {c \in FactoryCallers :
        /\ cfPc[c] \in {"check", "build"}
        /\ SecretId(cfSecret[c].namespace, cfSecret[c].name) = id}

\* return cl, err: the locals of the call are gone
CFEReturn(c, cl, err) ==
    /\ cfPc' = [cfPc EXCEPT ![c] = "done"]
    /\ cfEnv' = [cfEnv EXCEPT ![c] = NoEnvironment]
    /\ cfSecret' = [cfSecret EXCEPT ![c] = NoSecret]
    /\ cfFirst' = [cfFirst EXCEPT ![c] = "no"]
    /\ cfRet' = ClientResult(cl, err)

\* ClientForEnvironment up to localClient.Get
CFEStart(c, env) ==
    /\ cfPc[c] \in {"idle", "done"}
    /\ IF env.Kind \in {"", "in-cluster"}
       THEN CFEReturn(c, NoClient, "") /\ UNCHANGED invalPending
       ELSE IF env.Kind # "kubeconfig"
       THEN CFEReturn(c, NoClient, "unsupported connection kind")
            /\ UNCHANGED invalPending
       ELSE IF env.SecretRef = ""
       THEN CFEReturn(c, NoClient, "kubeconfig.secretRef is empty")
            /\ UNCHANGED invalPending
       ELSE IF SecretId(env.Namespace, env.SecretRef) \notin SecretIds
       THEN CFEReturn(c, NoClient, "get kubeconfig secret")
            /\ UNCHANGED invalPending
       ELSE LET id == SecretId(env.Namespace, env.SecretRef)
            IN  /\ cfPc' = [cfPc EXCEPT ![c] = "check"]
                /\ cfEnv' = [cfEnv EXCEPT ![c] = env]
                /\ cfSecret' = [cfSecret EXCEPT
                       ![c] = Secret(env.Namespace, env.SecretRef, secretRv[id])]
                /\ UNCHANGED cfRet
                \* observation: which call is the next one after an invalidation,
                \* and whether another call for the Secret overlaps it
                /\ cfFirst' = [d \in FactoryCallers |->
                       IF d = c
                       THEN IF invalPending[id] = "none" THEN "no"
                            ELSE IF InFlight(id) # {} THEN "raced"
                            ELSE invalPending[id]
                       ELSE IF d \in InFlight(id) /\ cfFirst[d] = "clean" THEN "raced"
                       ELSE cfFirst[d]]
                /\ invalPending' = [invalPending EXCEPT ![id] = "none"]
    /\ UNCHANGED <<secretRv, cfCache>>
    /\ UNCHANGED nonCache

\* f.mu.RLock(); if cached, ok := f.cache[ck]; ok { return cached, nil }
CFECheck(c) ==
    /\ cfPc[c] = "check"
    /\ IF CallCacheKey(c) \in DOMAIN cfCache
       THEN CFEReturn(c, cfCache[CallCacheKey(c)], "")
       ELSE /\ cfPc' = [cfPc EXCEPT ![c] = "build"]
            /\ UNCHANGED <<cfEnv, cfSecret, cfRet, cfFirst>>
    /\ UNCHANGED <<secretRv, cfCache, invalPending>>
    /\ UNCHANGED nonCache

\* the build from secret.Data[key] and the store under f.mu.Lock(); parses is
\* the outcome of RESTConfigFromKubeConfig and client.New
CFEBuild(c, parses) ==
    /\ cfPc[c] = "build"
    /\ LET env == cfEnv[c]
           key == SecretKeyOf(env)
           id  == SecretId(env.Namespace, env.SecretRef)
       IN  IF key \notin SecretDataKeys(id)
           THEN CFEReturn(c, NoClient, "secret does not contain key")
                /\ UNCHANGED cfCache
           ELSE IF ~parses
           THEN CFEReturn(c, NoClient, "parse kubeconfig")
                /\ UNCHANGED cfCache
           ELSE LET remoteClient ==
                        RemoteClient(KubeconfigBytes(cfSecret[c].namespace,
                                                     cfSecret[c].name, key,
                                                     cfSecret[c].resourceVersion))
                IN  /\ cfCache' = MapPut(cfCache, CallCacheKey(c), remoteClient)
                    /\ CFEReturn(c, remoteClient, "")
    /\ UNCHANGED <<secretRv, invalPending>>
    /\ UNCHANGED nonCache

\* f.cache = make(map[cacheKey]client.Client)
InvalidateCache ==
    /\ cfCache # EmptyCache
    /\ cfCache' = EmptyCache
    /\ UNCHANGED <<secretRv, cfPc, cfEnv, cfSecret, cfRet, invalPending, cfFirst>>
    /\ UNCHANGED nonCache

\* a match on the name alone
InvalidateMatchesName(k, namespace, name) == k.secretName = name

\* if k.namespace == namespace && k.secretName == name
InvalidateMatches(k, namespace, name) == k.namespace = namespace /\ k.secretName = name

InvalidateSecret(namespace, name) ==
    /\ cfCache' = MapWithout(cfCache,
                     {k \in DOMAIN cfCache : InvalidateMatches(k, namespace, name)})
    \* observation: the invalidation, and whether a call for the Secret was in flight
    /\ invalPending' = [invalPending EXCEPT ![SecretId(namespace, name)] =
                           IF InFlight(SecretId(namespace, name)) # {}
                           THEN "raced" ELSE "clean"]
    /\ cfFirst' = [d \in FactoryCallers |->
                      IF d \in InFlight(SecretId(namespace, name)) THEN "no" ELSE cfFirst[d]]
    /\ UNCHANGED <<secretRv, cfPc, cfEnv, cfSecret, cfRet>>
    /\ UNCHANGED nonCache

RECURSIVE SumOver(_, _)
SumOver(f, S) ==
    IF S = {} THEN 0
    ELSE LET x == CHOOSE y \in S : TRUE IN f[x] + SumOver(f, S \ {x})

\* the writes of Secrets made so far
SecretUpdates == SumOver(secretRv, SecretIds) - Cardinality(SecretIds)

\* the Secret is written in the management cluster: a new resourceVersion
UpdateSecret(id) ==
    /\ SecretUpdates < MaxSecretUpdates
    /\ secretRv' = [secretRv EXCEPT ![id] = @ + 1]
    /\ UNCHANGED <<cfCache, cfPc, cfEnv, cfSecret, cfRet, invalPending, cfFirst>>
    /\ UNCHANGED nonCache

\* CacheSize
CacheSize == Cardinality(DOMAIN cfCache)

CacheNext ==
    \/ \E c \in FactoryCallers, env \in FactoryEnvs : CFEStart(c, env)
    \/ \E c \in FactoryCallers : CFECheck(c)
    \/ \E c \in FactoryCallers, parses \in BOOLEAN : CFEBuild(c, parses)
    \/ InvalidateCache
    \/ \E id \in SecretIds : InvalidateSecret(id.namespace, id.name)
    \/ \E id \in SecretIds : UpdateSecret(id)

----------------------------------------------------------------------------
(***************************************************************************)
(* The cleanup chain of a run: the composition of cleanup functions as     *)
(* cmd/main.go builds it, in the form runner_integration_test.go           *)
(* (TestCleanupChaining) gives it.  A link is a func(ctx) []error; it is   *)
(* modelled by the number of errors it returns.                            *)
(***************************************************************************)
MaxLinks == 3

MaxLinkErrs == 2

\* the chains: cleanups := []func(ctx context.Context) []error{...}
CleanupChains == UNION {[1 .. n -> 0 .. MaxLinkErrs] : n \in 0 .. MaxLinks}

\* the j-th error of link i
LinkError(i, j) == [link |-> i, n |-> j]

\* errs := fn(ctx) of link i
LinkErrs(links, i) == [j \in 1 .. links[i] |-> LinkError(i, j)]

ChainInit ==
    /\ chLinks = <<>>
    /\ chPc = "idle"
    /\ chIdx = 0
    /\ chCalls = <<>>
    /\ chAllErrs = <<>>

\* errs := cfg.Cleanup(ctx): var allErrs []error
CallCleanup(links) ==
    /\ chPc \in {"idle", "done"}
    /\ chLinks' = links
    /\ chPc' = "loop"
    /\ chIdx' = 1
    /\ chCalls' = <<>>
    /\ chAllErrs' = <<>>
    /\ UNCHANGED nonChain

\* a loop that ends at the first link that returns errors
NextLinkStopOnError(idx, linkErrs) == IF Len(linkErrs) > 0 THEN Len(chLinks) + 1 ELSE idx + 1

\* for _, fn := range cleanups
NextLink(idx, linkErrs) == idx + 1

\* if errs := fn(ctx); len(errs) > 0 { allErrs = append(allErrs, errs...) }
CleanupStep ==
    /\ chPc = "loop"
    /\ chIdx <= Len(chLinks)
    /\ LET linkErrs == LinkErrs(chLinks, chIdx)
       IN  /\ chCalls' = Append(chCalls, chIdx)
           /\ chAllErrs' = IF Len(linkErrs) > 0 THEN chAllErrs \o linkErrs ELSE chAllErrs
           /\ chIdx' = NextLink(chIdx, linkErrs)
    /\ UNCHANGED <<chLinks, chPc>>
    /\ UNCHANGED nonChain

\* return allErrs
CleanupReturn ==
    /\ chPc = "loop"
    /\ chIdx > Len(chLinks)
    /\ chPc' = "done"
    /\ UNCHANGED <<chLinks, chIdx, chCalls, chAllErrs>>
    /\ UNCHANGED nonChain

ChainNext ==
    \/ \E links \in CleanupChains : CallCleanup(links)
    \/ CleanupStep
    \/ CleanupReturn

----------------------------------------------------------------------------
(***************************************************************************)
(* connectivity.Manager (internal/connectivity/connectivity.go): the       *)
(* health of the connectivity layer, the reachability of the endpoints and *)
(* the check before a run.  The network is an input: which dials succeed.  *)
(***************************************************************************)
\* *ConnectivitySpec; IsNil stands for the nil pointer
ConnectivitySpec(isNil, type) == [IsNil |-> isNil, Type |-> type]

ConnectivitySpecs ==
    {ConnectivitySpec(TRUE, "")}
        \cup {ConnectivitySpec(FALSE, t) : t \in {"direct", "headscale", "tailscale", "wireguard"}}

\* a URL: its protocol prefix, host, port ("" when it has none), and path
Url(prefix, host, port, path) == [prefix |-> prefix, host |-> host, port |-> port, path |-> path]

EndpointUrls ==
    {Url("https://", "db", "", "/health"), Url("ssh://", "bastion", "2222", ""),
     Url("", "", "", "")}

EndpointNames == {"a", "b"}

\* map[string]EndpointSpec, the nil map included
EndpointMaps == UNION {[names -> EndpointUrls] : names \in SUBSET EndpointNames}

Addr(host, port) == [host |-> host, port |-> port]

\* the network: the local API port and the socket of the sidecar, and the
\* addresses that accept a TCP connection
Networks ==
    [tcp : BOOLEAN, unix : BOOLEAN,
     up : SUBSET {Addr("db", "443"), Addr("bastion", "2222")}]

ConnectivityStatus(type, ready, message) ==
    [Type |-> type, Ready |-> ready, Message |-> message]

EndpointStatus(reachable, error) == [Reachable |-> reachable, Error |-> error]

checkTailscaleHealth(spec, net) ==
    IF ~net.tcp /\ ~net.unix
    THEN ConnectivityStatus(spec.Type, FALSE, "Tailscale sidecar not reachable")
    ELSE ConnectivityStatus(spec.Type, TRUE, "sidecar is running and connected")

CheckHealth(spec, net) ==
    IF spec.IsNil
    THEN ConnectivityStatus("direct", TRUE, "Direct connectivity (no mesh VPN)")
    ELSE IF spec.Type = "direct"
    THEN ConnectivityStatus("direct", TRUE, "Direct connectivity configured")
    ELSE IF spec.Type \in {"headscale", "tailscale"}
    THEN checkTailscaleHealth(spec, net)
    ELSE ConnectivityStatus(spec.Type, FALSE, "Unknown connectivity type")

\* the prefix and the path are stripped; without a port the protocol gives it
extractHostPort(url) ==
    IF url.port # ""
    THEN Addr(url.host, url.port)
    ELSE IF url.prefix = "https://" THEN Addr(url.host, "443")
    ELSE IF url.prefix = "http://" THEN Addr(url.host, "80")
    ELSE IF url.prefix = "ssh://" THEN Addr(url.host, "22")
    ELSE Addr(url.host, "443")

checkEndpoint(ep, net) ==
    IF extractHostPort(ep).host = ""
    THEN EndpointStatus(FALSE, "could not parse host from URL")
    ELSE IF extractHostPort(ep) \notin net.up
    THEN EndpointStatus(FALSE, "TCP dial failed")
    ELSE EndpointStatus(TRUE, "")

CheckEndpoints(endpoints, net) ==
    [name \in DOMAIN endpoints |-> checkEndpoint(endpoints[name], net)]

\* the names PreRunCheck collects in unreachable, and logs
Unreachable(results) == {name \in DOMAIN results : ~results[name].Reachable}

\* the error PreRunCheck returns: "" is nil
PreRunCheck(spec, endpoints, net) ==
    IF ~CheckHealth(spec, net).Ready
    THEN "connectivity not ready"
    ELSE ""

\* what the log of PreRunCheck names as unreachable
PreRunLogged(spec, endpoints, net) ==
    IF ~CheckHealth(spec, net).Ready
    THEN {}
    ELSE Unreachable(CheckEndpoints(endpoints, net))

ConnCall(spec, endpoints, net, err, logged) ==
    [spec |-> spec, endpoints |-> endpoints, net |-> net, err |-> err, logged |-> logged]

NoConnCall ==
    ConnCall(ConnectivitySpec(TRUE, ""), <<>>, [tcp |-> FALSE, unix |-> FALSE, up |-> {}],
             "", {})

\* NewManager: no call made
ConnInit == connCall = [called |-> FALSE] @@ NoConnCall

CallPreRunCheck(spec, endpoints, net) ==
    /\ connCall' = [called |-> TRUE] @@
                   ConnCall(spec, endpoints, net, PreRunCheck(spec, endpoints, net),
                            PreRunLogged(spec, endpoints, net))
    /\ UNCHANGED nonConn

ConnNext ==
    \E spec \in ConnectivitySpecs, endpoints \in EndpointMaps, net \in Networks :
        CallPreRunCheck(spec, endpoints, net)

----------------------------------------------------------------------------
(***************************************************************************)
(* rbac.Engine: the authorization decision for a user, an action and a     *)
(* resource.  A string that is matched against a glob is a sequence of     *)
(* characters.                                                             *)
(***************************************************************************)
MaxPolicies == 2

RoleViewer   == "viewer"
RoleOperator == "operator"
RoleAdmin    == "admin"

ActionViewAgents    == "agents:view"
ActionViewRuns      == "runs:view"
ActionViewInventory == "inventory:view"
ActionViewAudit     == "audit:view"
ActionRunAgent      == "agents:run"
ActionAbortRun      == "runs:abort"
ActionApprove       == "approvals:decide"
ActionManageDevice  == "inventory:manage"
ActionConfigure     == "config:write"
ActionChat          == "chat:use"

\* the roles of the policies: the three built-in ones and one that is not
PolicyRoles == {RoleViewer, RoleOperator, RoleAdmin, "auditor"}

\* the actions of the calls: one of each group of rolePermits
CallActions == {ActionViewRuns, ActionRunAgent, ActionConfigure}

\* strings.HasPrefix
HasPrefix(s, prefix) ==
    /\ Len(prefix) <= Len(s)
    /\ SubSeq(s, 1, Len(prefix)) = prefix

\* strings.HasSuffix(pattern, "*")
EndsWithStar(pattern) == Len(pattern) > 0 /\ pattern[Len(pattern)] = "*"

matchGlob(s, pattern) ==
    IF pattern = <<"*">> THEN TRUE
    ELSE IF EndsWithStar(pattern)
         THEN HasPrefix(s, SubSeq(pattern, 1, Len(pattern) - 1))
         ELSE s = pattern

SubjectMatcher(claim, value) == [Claim |-> claim, Value |-> value]

PolicyScope(tags, namespaces, agents) ==
    [Tags |-> tags, Namespaces |-> namespaces, Agents |-> agents]

UserPolicy(subjects, role, scope) ==
    [Subjects |-> subjects, Role |-> role, Scope |-> scope]

UserIdentity(isNil, subject, email, groups, claims) ==
    [isNil |-> isNil, Subject |-> subject, Email |-> email, Groups |-> groups,
     Claims |-> claims]

NilUser == UserIdentity(TRUE, <<>>, <<>>, <<>>, [dept |-> <<>>])

\* a nil user, a member of the ops group and a user without groups
RbacUsers ==
    {NilUser,
     UserIdentity(FALSE, <<"u", "1">>, <<"a", "@", "x">>, <<(<<"o", "p", "s", "1">>)>>,
                  [dept |-> <<"i", "t">>]),
     UserIdentity(FALSE, <<"u", "2">>, <<"b", "@", "x">>, <<>>,
                  [dept |-> <<"h", "r">>])}

\* the subject matchers of a policy: every user by email, the ops groups,
\* one user by subject, one raw claim
SubjectLists ==
    {<<SubjectMatcher("email", <<"*">>)>>,
     <<SubjectMatcher("groups", <<"o", "p", "s", "*">>)>>,
     <<SubjectMatcher("sub", <<"u", "2">>)>>,
     <<SubjectMatcher("dept", <<"i", "t">>)>>}

\* no restriction, the agents web*, the namespace prod
PolicyScopes ==
    {PolicyScope(<<>>, <<>>, <<>>),
     PolicyScope(<<>>, <<>>, <<(<<"w", "e", "b", "*">>)>>),
     PolicyScope(<<>>, <<(<<"p", "r", "o", "d">>)>>, <<>>)}

\* no resource, an agent web1, an agent db1
CallResources == {<<>>, <<"w", "e", "b", "1">>, <<"d", "b", "1">>}

PolicySet == {UserPolicy(s, r, sc) : s \in SubjectLists, r \in PolicyRoles,
                                     sc \in PolicyScopes}

PolicyLists == UNION {[1..n -> PolicySet] : n \in 0..MaxPolicies}

Decision(allowed, reason, policy) ==
    [Allowed |-> allowed, Reason |-> reason, Policy |-> policy]

NoPolicy == UserPolicy(<<>>, "", PolicyScope(<<>>, <<>>, <<>>))

\* one matcher of matchesSubject
MatcherMatches(user, s) ==
    CASE s.Claim = "email" -> matchGlob(user.Email, s.Value)
      [] s.Claim \in {"sub", "subject"} -> user.Subject = s.Value
      [] s.Claim \in {"groups", "group"} ->
            \E i \in DOMAIN user.Groups : matchGlob(user.Groups[i], s.Value)
      [] OTHER -> IF s.Claim \in DOMAIN user.Claims
                  THEN user.Claims[s.Claim] = s.Value
                  ELSE FALSE

matchesSubject(user, subjects) ==
    \E i \in DOMAIN subjects : MatcherMatches(user, subjects[i])

AnyMatches(s, patterns) == \E i \in DOMAIN patterns : matchGlob(s, patterns[i])

inScope(scope, resource) ==
    IF Len(scope.Tags) = 0 /\ Len(scope.Namespaces) = 0 /\ Len(scope.Agents) = 0
    THEN TRUE
    ELSE \/ AnyMatches(resource, scope.Agents)
         \/ AnyMatches(resource, scope.Tags)
         \/ AnyMatches(resource, scope.Namespaces)

roleRank(r) ==
    CASE r = RoleViewer   -> 1
      [] r = RoleOperator -> 2
      [] r = RoleAdmin    -> 3
      [] OTHER            -> 0

rolePermits(r, action) ==
    CASE r = RoleAdmin -> TRUE
      [] r = RoleOperator ->
            action \in {ActionViewAgents, ActionViewRuns, ActionViewInventory,
                        ActionViewAudit, ActionRunAgent, ActionAbortRun,
                        ActionApprove, ActionChat}
      [] r = RoleViewer ->
            action \in {ActionViewAgents, ActionViewRuns, ActionViewInventory,
                        ActionViewAudit}
      [] OTHER -> FALSE

\* the policies of the engine that match the user, in the order of the engine
matchedPolicies(policies, user) ==
    SelectSeq(policies, LAMBDA p : matchesSubject(user, p.Subjects))

\* the loop that keeps the first policy of the highest rank; best = 0 is nil
RECURSIVE bestPolicy(_, _, _)
bestPolicy(matched, i, best) ==
    IF i > Len(matched) THEN best
    ELSE bestPolicy(matched, i + 1,
                    IF best = 0 \/ roleRank(matched[i].Role) > roleRank(matched[best].Role)
                    THEN i ELSE best)

Authorize(policies, user, action, resource) ==
    IF user.isNil THEN Decision(FALSE, "no user identity", NoPolicy)
    ELSE LET matched == matchedPolicies(policies, user)
         IN  IF Len(matched) = 0
             THEN Decision(FALSE, "no policy matches user", NoPolicy)
             ELSE LET best == matched[bestPolicy(matched, 1, 0)]
                  IN  IF ~rolePermits(best.Role, action)
                      THEN Decision(FALSE, "role does not permit action", NoPolicy)
                      ELSE IF resource # <<>> /\ ~inScope(best.Scope, resource)
                           THEN Decision(FALSE, "resource is outside policy scope",
                                         NoPolicy)
                           ELSE Decision(TRUE, "permitted by policy", best)

Engine(constructed, policies) == [constructed |-> constructed, policies |-> policies]

NoEngine == Engine(FALSE, <<>>)

RbacCall(user, action, resource, decision) ==
    [user |-> user, action |-> action, resource |-> resource, decision |-> decision]

NoRbacCall == RbacCall(NilUser, "", <<>>, Decision(FALSE, "", NoPolicy))

RbacInit ==
    /\ rbacEngine = NoEngine
    /\ rbacCall = [called |-> FALSE] @@ NoRbacCall

NewEngine(policies) ==
    /\ ~rbacEngine.constructed
    /\ rbacEngine' = Engine(TRUE, policies)
    /\ UNCHANGED <<rbacCall, nonRbac>>

CallAuthorize(user, action, resource) ==
    /\ rbacEngine.constructed
    /\ rbacCall' = [called |-> TRUE] @@
                   RbacCall(user, action, resource,
                            Authorize(rbacEngine.policies, user, action, resource))
    /\ UNCHANGED <<rbacEngine, nonRbac>>

RbacNext ==
    \/ \E policies \in PolicyLists : NewEngine(policies)
    \/ \E user \in RbacUsers, action \in CallActions, resource \in CallResources :
           CallAuthorize(user, action, resource)

----------------------------------------------------------------------------
(***************************************************************************)
(* retention over a cluster in which no run is created or finished: the    *)
(* controller starts with the AgentRuns that exist, and the API server     *)
(* refuses the deletion of some of them every time.                        *)
(***************************************************************************)
MaxListed       == 2
MaxCreated      == 1
MaxConvergeTime == 3

ServerIdle == undeletable = {}

\* an AgentRun of the cluster when the controller starts
ListedRuns ==
    {AgentRun(ns, a, RunPhaseRunning, created, NoTime) :
        ns \in RetNamespaces, a \in AgentRefs, created \in 0 .. MaxCreated}
    \cup
    UNION {{AgentRun(ns, a, RunPhaseSucceeded, created, completed) :
                ns \in RetNamespaces, a \in AgentRefs,
                completed \in {NoTime} \cup (created .. MaxCreated)} :
           created \in 0 .. MaxCreated}

\* the runs in the order of their creation, at most one unfinished per agent
ClusterRuns ==
    {items \in UNION {[1 .. n -> ListedRuns] : n \in 0 .. MaxListed} :
        /\ \A i, j \in DOMAIN items :
               i < j => items[i].CreationTimestamp <= items[j].CreationTimestamp
        /\ \A i, j \in DOMAIN items :
               (/\ i # j
                /\ RunAgentKey(items[i]) = RunAgentKey(items[j])
                /\ ~isTerminal(items[i].Phase)) => isTerminal(items[j].Phase)}

\* NewController(c, cfg, log) over such a cluster
ConvergeInit ==
    /\ agentRuns \in ClusterRuns
    /\ nextRun = Len(agentRuns) + 1
    /\ retConfig \in Configs
    /\ scanResult = ScanResult(0, 0, 0, 0)
    /\ sweeps = 0
    /\ deletedRuns = << >>
    /\ listed = FALSE
    /\ undeletable \in SUBSET (DOMAIN agentRuns)

\* doScan, lines 136-214, with client.Delete failing for the undeletable runs
\* and for no other
doScanPersistent ==
    /\ LET items  == agentRuns
           cutoff == now - retConfig.TTL
       IN  \E agentOrder \in Orderings(DOMAIN byAgent(items)) :
           \E sorted \in SortedChoices(items) :
               LET toDelete == ToDelete(items, agentOrder, sorted, retConfig, cutoff)
                   batch    == ApplyBatchLimit(toDelete, retConfig)
                   failed   == SeqRange(batch) \cap undeletable
                   gone     == SeqRange(batch) \ failed
               IN  /\ agentRuns' = [r \in (DOMAIN agentRuns) \ gone |-> agentRuns[r]]
                   /\ deletedRuns' = [r \in (DOMAIN deletedRuns) \cup gone |->
                                         IF r \in gone THEN RunAgentKey(agentRuns[r])
                                         ELSE deletedRuns[r]]
                   /\ scanResult' = ScanResult(Cardinality(DOMAIN items),
                                               Len(toDelete),
                                               Cardinality(gone),
                                               Cardinality(failed))
    /\ listed' = TRUE
    /\ sweeps' = IF sweeps < MaxSweeps THEN sweeps + 1 ELSE sweeps
    /\ UNCHANGED <<nextRun, retConfig>>
    /\ UNCHANGED nonRetention

\* the scan interval passes
ConvergeTick ==
    /\ now < MaxConvergeTime
    /\ now' = now + 1
    /\ UNCHANGED trackerRest
    /\ UNCHANGED retentionVars
    /\ UNCHANGED nonRetentionRest

ConvergeNext ==
    \/ doScanPersistent
    \/ ConvergeTick

----------------------------------------------------------------------------
(***************************************************************************)
(* Specifications                                                          *)
(***************************************************************************)
\* the subsystems added after the first four are idle
\* the subsystems added after the webhook handler, before their first call
NewIdle == ScheduleIdle /\ CacheInit /\ ChainInit /\ ConnInit /\ RbacInit /\ ServerIdle

LaterIdle == RetentionIdle /\ NewIdle

RestIdle == ApprovalIdle /\ EscalationIdle /\ DebouncerIdle /\ HookIdle /\ LaterIdle

Idle == TrackerInit /\ ClassifyIdle /\ DrainIdle /\ CredInit /\ RestIdle

Init == Idle /\ drainTimeout = 0

SpecTracker == Init /\ [][TrackerNext]_vars

Spec == SpecTracker

InitClassify == TrackerInit /\ ClassifyInit /\ DrainIdle /\ drainTimeout = 0 /\ CredInit /\ RestIdle

SpecClassify == InitClassify /\ [][ClassifyNext]_vars

InitDrain == TrackerInit /\ ClassifyIdle /\ DrainInit /\ CredInit /\ RestIdle

SpecDrain == InitDrain /\ [][DrainNext]_vars

SpecCred == Init /\ [][CredNext]_vars

\* The Go scheduler runs every runnable goroutine: WaitForDrain takes a ready
\* case, and the clock advances.
SpecDrainFair ==
    /\ InitDrain
    /\ [][DrainNext]_vars
    /\ WF_vars(DrainStep)
    /\ WF_vars(DrainTick)

SpecApproval == Init /\ [][ApprovalNext]_vars

SpecEscalation == Init /\ [][EscalationNext]_vars

InitDebouncer ==
    /\ TrackerInit /\ ClassifyIdle /\ DrainIdle /\ drainTimeout = 0 /\ CredInit
    /\ ApprovalIdle /\ EscalationIdle /\ DebouncerInit /\ HookIdle /\ LaterIdle

SpecDebouncer == InitDebouncer /\ [][DebouncerNext]_vars

InitHook ==
    /\ TrackerInit /\ ClassifyIdle /\ DrainIdle /\ drainTimeout = 0 /\ CredInit
    /\ ApprovalIdle /\ EscalationIdle /\ DebouncerInit /\ HookInit /\ LaterIdle

SpecHook == InitHook /\ [][HookNext]_vars

\* net/http runs the handler goroutine to its end; nothing is assumed of the
\* consumer of the trigger channel
SpecHookFair == InitHook /\ [][HookNext]_vars /\ WF_vars(ServeStep)

InitRetention ==
    /\ TrackerInit /\ ClassifyIdle /\ DrainIdle /\ drainTimeout = 0 /\ CredInit
    /\ ApprovalIdle /\ EscalationIdle /\ DebouncerIdle /\ HookIdle /\ RetentionInit
    /\ NewIdle

SpecRetention == InitRetention /\ [][RetentionNext]_vars

InitSchedule ==
    /\ TrackerInit /\ ClassifyIdle /\ DrainIdle /\ drainTimeout = 0 /\ CredInit
    /\ ApprovalIdle /\ EscalationIdle /\ DebouncerIdle /\ HookIdle /\ RetentionIdle
    /\ ScheduleInit /\ CacheInit /\ ChainInit /\ ConnInit /\ RbacInit /\ ServerIdle

SpecSchedule == InitSchedule /\ [][ScheduleNext]_vars

SpecJitter == Init /\ [][JitterNext]_vars

SpecCache == Init /\ [][CacheNext]_vars

SpecChain == Init /\ [][ChainNext]_vars

SpecConn == Init /\ [][ConnNext]_vars

SpecRbac == Init /\ [][RbacNext]_vars

\* the controller starts over the AgentRuns of the cluster; no run is created
\* or finished afterwards
InitConverge ==
    /\ inflight = NewRunTracker /\ mu = NoHolder /\ now = MaxCreated
    /\ pc = [r \in Runs |-> "idle"] /\ runAgent = [r \in Runs |-> "ns/agent1"]
    /\ ret = [r \in Runs |-> FALSE]
    /\ ClassifyIdle /\ DrainIdle /\ drainTimeout = 0 /\ CredInit
    /\ ApprovalIdle /\ EscalationIdle /\ DebouncerIdle /\ HookIdle /\ ConvergeInit
    /\ ScheduleIdle /\ CacheInit /\ ChainInit /\ ConnInit /\ RbacInit

SpecConverge == InitConverge /\ [][ConvergeNext]_vars

\* Start scans on every tick of its ticker
SpecConvergeFair == SpecConverge /\ WF_vars(doScanPersistent)

----------------------------------------------------------------------------
(***************************************************************************)
(* Claims about the concurrency gate                                       *)
(***************************************************************************)

\* the runs of agentKey that were admitted and have not finished
Executing(agentKey) == {r \in Runs : pc[r] = "executing" /\ runAgent[r] = agentKey}

\* C1: for every agent key, in every reachable state, at most one run of that
\* agent is executing (admitted by TryStart and not yet finished), whatever the
\* interleaving of TryStart, Complete and CleanStale.
C1_AtMostOneExecuting == \A a \in AgentKeys : Cardinality(Executing(a)) <= 1

\* C2: TryStart returns true iff the key is absent when it is called; on true it
\* inserts (runName, admission time) and touches no other key; on false the map
\* is unchanged; of the callers inside TryStart for one absent key only one
\* reaches the insert, so only one gets true.
C2_TryStartContract ==
    [][\A r \in Runs :
        LET a == runAgent[r] IN
        /\ (pc[r] = "insert" /\ pc'[r] = "executing") =>
              /\ a \notin DOMAIN inflight
              /\ ret'[r] = TRUE
              /\ DOMAIN inflight' = (DOMAIN inflight) \cup {a}
              /\ inflight'[a].RunName = r
              /\ inflight'[a].StartedAt = now
              /\ \A k \in DOMAIN inflight : inflight'[k] = inflight[k]
        /\ (pc[r] = "check" /\ pc'[r] = "rejected") =>
              /\ a \in DOMAIN inflight
              /\ ret'[r] = FALSE
              /\ inflight' = inflight
        /\ (pc[r] = "check" /\ pc'[r] = "insert") => a \notin DOMAIN inflight
        /\ (pc[r] = "check" /\ a \notin DOMAIN inflight) => pc'[r] # "rejected"
        /\ (pc[r] = "check" /\ a \in DOMAIN inflight) => pc'[r] # "insert"
      ]_vars

\* a second caller was turned away while the first caller's run executes
C2_Witness ==
    \E r1, r2 \in Runs :
        /\ r1 # r2 /\ runAgent[r1] = runAgent[r2]
        /\ pc[r1] = "executing" /\ ret[r1] = TRUE
        /\ pc[r2] = "rejected" /\ ret[r2] = FALSE
        /\ inflight[runAgent[r1]].RunName = r1

----------------------------------------------------------------------------
(***************************************************************************)
(* Claims about the classifiers                                            *)
(***************************************************************************)

\* C3: every action a classifier (AWS, Azure, SQL) puts in the data-mutation
\* tier comes back with Blocked = true, whatever the arguments.
C3_DataMutationBlocked ==
    clsResult.Tier = TierDataMutation => clsResult.Blocked = TRUE

\* a key that is in the destructive and in the data-mutation table of Azure
C3_Witness ==
    /\ clsResult.Tier = TierDataMutation
    /\ clsTool = "azure"
    /\ clsArgs = [group |-> "sql", command |-> "db.delete"]

\* the verb of the call is in none of the tool's static tables
UnknownVerb ==
    CASE clsTool = "aws" ->
           LET key == ActionKey(ArgString(clsArgs, "service"), ArgString(clsArgs, "command"))
           IN  key \notin (awsDestructive \cup awsDataMutation \cup awsServiceMutation)
      [] clsTool = "azure" ->
           LET key == ActionKey(ArgString(clsArgs, "group"), ArgString(clsArgs, "command"))
           IN  key \notin (azureDestructive \cup azureDataMutation \cup azureServiceMutation)
      [] clsTool = "sql" ->
           ToUpper(clsArgs["query"][1]) \notin
              (sqlRead \cup sqlDataMutation \cup sqlDestructive \cup sqlServiceMutation)

\* C4: classification is fail-closed: a verb that is in none of the tool's
\* static tables is classified destructive-mutation, never read or
\* service-mutation.
C4_FailClosed ==
    (clsResult # NoResult /\ UnknownVerb) => clsResult.Tier = TierDestructiveMutation

----------------------------------------------------------------------------
(***************************************************************************)
(* Claims about the drain coordinator                                      *)
(***************************************************************************)

\* WaitForDrain returns in this step
DrainReturns == drainPc # "done" /\ drainPc' = "done"

\* the runs that have an entry in the tracker
InFlightRuns == {inflight[k].RunName : k \in DOMAIN inflight}

\* the context of run r has been cancelled
Cancelled(r) == cancelCalls[r] > 0

\* C5: whenever WaitForDrain returns, the in-flight count is zero or the
\* context of every in-flight run has been cancelled.
C5_DrainPostcondition ==
    [][DrainReturns => (InFlightCount' = 0 \/ \A r \in InFlightRuns' : Cancelled(r)')]_vars

\* the run contexts that this step cancels
CancelledNow == {r \in Runs : cancelCalls'[r] > cancelCalls[r]}

\* C6: when the deadline elapses with runs in flight, WaitForDrain cancels
\* every registered run context and returns the number of run contexts it
\* forcibly cancelled.
C6_ReturnsCancelledCount ==
    [][(drainPc = "cancel" /\ drainPc' = "done") =>
          /\ Registered \subseteq CancelledNow
          /\ drainRet' = Cardinality(CancelledNow)]_vars

\* C7, the part that holds in every state: while WaitForDrain waits, the clock
\* is not past the deadline and no tick of the 500 ms ticker is left waiting
\* (a poll takes place at every tick).
C7_Prompt ==
    /\ drainPc \in {"loop", "cancel"} => now <= deadlineAt
    /\ (drainPc = "loop" /\ tickReady) => TickerFires(now)

\* C7, the steps: with a count of zero at entry WaitForDrain returns 0 at once,
\* and a poll that finds the count at zero returns 0.
C7_ZeroReturns ==
    /\ (drainPc = "idle" /\ drainPc' # "idle" /\ InFlightCount = 0) =>
          (drainPc' = "done" /\ drainRet' = 0)
    /\ (drainPc = "loop" /\ tickReady /\ ~tickReady' /\ InFlightCount = 0) =>
          (drainPc' = "done" /\ drainRet' = 0)

\* C7: WaitForDrain always terminates: at once with 0 when the count is zero at
\* entry, with 0 at the first poll that finds the count at zero, and otherwise
\* no later than the drain deadline, even if no run ever completes.
C7_DrainTerminates ==
    /\ []C7_Prompt
    /\ [][C7_ZeroReturns]_vars
    /\ (drainPc = "loop") ~> (drainPc = "done")

\* a run never completed: WaitForDrain polled, then returned at the deadline
C7_Witness ==
    /\ drainPc = "done"
    /\ drainRet > 0
    /\ drainTimeout > PollInterval
    /\ now = deadlineAt
    /\ \E r \in Runs : pc[r] = "executing"

----------------------------------------------------------------------------
(***************************************************************************)
(* Claims about the credential manager                                     *)
(***************************************************************************)

\* the leases that were tracked when Cleanup was called
CallLeaseSet == {callLeases[i] : i \in DOMAIN callLeases}

\* the leases whose revocation failed
FailedLeases == {l \in CallLeaseSet : outcome[l] # "revoked"}

\* C8: Cleanup attempts the revocation of every lease tracked when it is
\* called exactly once, whether or not earlier revocations failed, and returns
\* exactly one error per failed revocation.
C8_RevokesEveryLease ==
    credPc = "returned" =>
        /\ \A l \in LeaseIds : revokeCalls[l] = (IF l \in CallLeaseSet THEN 1 ELSE 0)
        /\ Len(errs) = Cardinality(FailedLeases)
        /\ {errs[i] : i \in DOMAIN errs} = FailedLeases

\* the first revocation failed, the second one was made and succeeded
C8_Witness ==
    /\ credPc = "returned"
    /\ Len(callLeases) = 2
    /\ outcome[callLeases[1]] = "server error"
    /\ outcome[callLeases[2]] = "revoked"
    /\ Len(errs) = 1

\* C9: after Cleanup returns, with or without revocation errors, every tracked
\* private key buffer holds only zero bytes and both tracking lists are empty
\* (ActiveLeaseCount() = 0).
C9_KeysZeroedListsCleared ==
    credPc = "returned" =>
        /\ \A n \in DOMAIN callKeys :
              \A j \in DOMAIN keyMem[callKeys[n]] : keyMem[callKeys[n]][j] = 0
        /\ leases = << >>
        /\ sshKeys = << >>
        /\ ActiveLeaseCount = 0

\* Cleanup returned with a revocation error and had a key and a lease to clear
C9_Witness ==
    /\ credPc = "returned"
    /\ Len(callKeys) >= 1
    /\ Len(callLeases) >= 1
    /\ Len(errs) >= 1

\* C10: cancellation of the context does not prevent revocation: when Cleanup
\* runs with a cancelled context, every tracked lease is still revoked at the
\* Vault server unless the server could not be reached or refused.
C10_CancellationSuppressed ==
    (credPc = "returned" /\ ctxCancelled) =>
        \A l \in CallLeaseSet :
            outcome[l] \in {"unreachable", "server error"} \/ l \notin vaultLeases

----------------------------------------------------------------------------
(***************************************************************************)
(* Claims about the approval manager                                       *)
(***************************************************************************)

\* RequestApproval returns in this step
ApprovalReturns == apPc = "waiting" /\ apPc' = "returned"

\* C11, the step: a return at the elapsed timeout of a request that is still
\* Pending writes Expired with decider "system" and returns a non-approved
\* Expired result with no error
C11_ExpireStep ==
    (ApprovalReturns /\ apPhase = ApprovalPhasePending /\ now >= apDeadline /\ ~apCtxDone) =>
        /\ apPhase' = ApprovalPhaseExpired
        /\ apDecidedBy' = SystemDecider
        /\ apWrites' = apWrites + 1
        /\ apResult'.Approved = FALSE
        /\ apResult'.Phase = ApprovalPhaseExpired
        /\ apErr' = ""

\* C11: a request that stays Pending until its timeout elapses is written
\* Expired with decider "system", RequestApproval returns a non-approved result
\* with phase Expired and no error, and the wait never lasts past the timeout.
C11_TimeoutExpires ==
    /\ [](apPc = "waiting" => now <= apDeadline)
    /\ [][C11_ExpireStep]_vars

\* a request with a timeout of its own expired after the wait
C11_Witness ==
    /\ apPc = "returned"
    /\ apDeadline > 0
    /\ now = apDeadline
    /\ apPhase = ApprovalPhaseExpired
    /\ apDecidedBy = SystemDecider
    /\ apResult = ApprovalResult(FALSE, ApprovalPhaseExpired, "")
    /\ apErr = ""
    /\ ~apCtxDone

\* C12: when the caller's context is cancelled while the request is Pending
\* (and its timeout has not elapsed), RequestApproval returns phase Expired and
\* the context's error, and writes nothing: the stored phase stays Pending.
C12_CancelNoWrite ==
    [][(ApprovalReturns /\ apCtxDone /\ apPhase = ApprovalPhasePending /\ now < apDeadline) =>
          /\ apResult'.Phase = ApprovalPhaseExpired
          /\ apResult'.Approved = FALSE
          /\ apErr' # ""
          /\ apPhase' = ApprovalPhasePending
          /\ apDecidedBy' = apDecidedBy
          /\ apWrites' = apWrites]_vars

\* the call returned on cancellation before the timeout, the record is Pending
C12_Witness ==
    /\ apPc = "returned"
    /\ apCtxDone
    /\ now < apDeadline
    /\ apErr = "context canceled"
    /\ apResult.Phase = ApprovalPhaseExpired
    /\ apPhase = ApprovalPhasePending
    /\ apWrites = 0

----------------------------------------------------------------------------
(***************************************************************************)
(* Claims about the escalation engine                                      *)
(***************************************************************************)

\* Escalate returns in this step
EscalateReturns == escPc = "waiting" /\ escPc' = "returned"

\* C13: when the escalation wait reaches its timeout (and the run's context is
\* not cancelled), Escalate reports TimedOut = true and the policy it applies
\* is the declared onTimeout policy of the agent, one of cancel, proceed, retry.
C13_TimeoutAppliesPolicy ==
    [][(EscalateReturns /\ now >= escDeadline /\ ~escCtxDone) =>
          /\ escResult'.TimedOut = TRUE
          /\ escResult'.Policy = escConfig.OnTimeout
          /\ escResult'.Policy \in TimeoutActions]_vars

\* a wait of one clock unit or more timed out and the policy retry was applied
C13_Witness ==
    /\ escPc = "returned"
    /\ escResult.TimedOut
    /\ escConfig.OnTimeout = TimeoutRetry
    /\ escResult.Policy = TimeoutRetry
    /\ escDeadline > 0
    /\ now = escDeadline

\* C14: the wait is cancellable: when the run's context is cancelled before
\* the timeout, Escalate returns without letting time pass, with the context
\* error, TimedOut = false and no policy applied.
C14_CancelReturnsPromptly ==
    [][/\ (escPc = "waiting" /\ escCtxDone /\ now < escDeadline) => now' = now
       /\ (EscalateReturns /\ escCtxDone /\ now < escDeadline) =>
             /\ escResult'.Error = "context canceled"
             /\ escResult'.TimedOut = FALSE
             /\ escResult'.Policy = ""]_vars

\* an escalation whose policy is proceed was cancelled before its timeout
C14_Witness ==
    /\ escPc = "returned"
    /\ escCtxDone
    /\ now < escDeadline
    /\ escConfig.OnTimeout = TimeoutProceed
    /\ escResult.Error = "context canceled"
    /\ escResult.TimedOut = FALSE
    /\ escResult.Policy = ""

----------------------------------------------------------------------------
(***************************************************************************)
(* Claims about the debouncer                                              *)
(***************************************************************************)

\* calls i and j of the history are fires of one key, j after i and inside the
\* window that starts at the fire i
SecondFireInWindow(i, j) ==
    /\ i < j
    /\ debHist[i].op = "fire" /\ debHist[j].op = "fire"
    /\ debHist[i].key = debHist[j].key
    /\ debHist[j].time < debHist[i].time + debWindow

\* C15, as stated: for every key and every window that starts at a firing call,
\* ShouldFire(key) returns true exactly once among all the calls in the window,
\* concurrent calls included.
C15_ExactlyOncePerWindow ==
    \A i, j \in DOMAIN debHist : ~SecondFireInWindow(i, j)

\* C15, amended: for every key and every window that starts at a firing call,
\* ShouldFire(key) returns true exactly once among all the calls in the window,
\* concurrent calls included, unless Reset was called between the two fires.
C15_ExactlyOncePerWindowNoReset ==
    \A i, j \in DOMAIN debHist :
        SecondFireInWindow(i, j) =>
            \E k \in DOMAIN debHist : i < k /\ k < j /\ debHist[k].op = "reset"

\* a key fired, a second call inside the window was dropped, and the call at
\* the end of the window fired again
C15_Witness ==
    /\ Len(debHist) = 3
    /\ debHist[1].op = "fire" /\ debHist[2].op = "drop" /\ debHist[3].op = "fire"
    /\ debHist[1].key = debHist[2].key /\ debHist[2].key = debHist[3].key
    /\ debHist[2].time < debHist[1].time + debWindow
    /\ debHist[3].time = debHist[1].time + debWindow

----------------------------------------------------------------------------
(***************************************************************************)
(* Claims about the webhook handler                                        *)
(***************************************************************************)

\* C16, the step: a turn of the loop that finds the channel full leaves the
\* channel as it is and goes on to the next agent
C16_DropWhenFull ==
    (hookPc = "loop" /\ hookPc' = "loop" /\ hookIdx' # hookIdx
        /\ Len(hookTriggers) = TriggerCapacity) =>
        /\ hookTriggers' = hookTriggers
        /\ hookIdx' = hookIdx + 1
        /\ hookResp'.triggered = hookResp.triggered

\* C16: the trigger channel never holds more than its capacity of 100, and
\* ServeHTTP never blocks on it: with a full channel the trigger is dropped and
\* the request is completed, whether or not a consumer reads.
C16_BoundedNonBlocking ==
    /\ [](Len(hookTriggers) <= TriggerCapacity)
    /\ [][C16_DropWhenFull]_vars
    /\ (hookPc = "loop") ~> (hookPc = "done")

\* a request was answered 202 with the channel full and its trigger dropped
C16_Witness ==
    /\ hookPc = "done"
    /\ hookResp = HookResponse(StatusAccepted, 1, 0)
    /\ Len(hookTriggers) = TriggerCapacity
    /\ hookReads = 0
    /\ DebounceKey("alerts", "ns/agent1") \in DOMAIN debLast
    /\ debLast[DebounceKey("alerts", "ns/agent1")] = now

\* ServeHTTP answers the request in this step
ServeAnswers == hookPc # "done" /\ hookPc' = "done"

\* the path names a source: /webhook/{source} with a source that is not empty
HasSource(path) == Len(path) >= 2 /\ path[1] = "webhook" /\ path[2] # ""

\* the status the claim gives to a request
ClaimedStatus(req) ==
    IF req.method # MethodPost THEN StatusMethodNotAllowed
    ELSE IF ~HasSource(req.path) THEN StatusBadRequest
    ELSE StatusAccepted

\* the status of a request, with the unreadable body
AmendedStatus(req) ==
    IF req.method = MethodPost /\ HasSource(req.path) /\ ~req.bodyOk
    THEN StatusBadRequest
    ELSE ClaimedStatus(req)

\* the answers 405 and 400 enqueue nothing
NoEnqueueOnError ==
    (hookResp'.status \in {StatusMethodNotAllowed, StatusBadRequest}) =>
        hookTriggers' = hookTriggers

\* C17, as stated: 405 to every non-POST request, 400 to a POST with no source
\* in the path, 202 to every other POST (debounced, dropped or without a
\* registered agent); the 405 and 400 answers enqueue no trigger.
C17_StatusCodes ==
    [][ServeAnswers => (hookResp'.status = ClaimedStatus(hookReq') /\ NoEnqueueOnError)]_vars

\* C17, amended: 405 to every non-POST request, 400 to a POST with no source in
\* the path or with a body that cannot be read, 202 to every other POST
\* (debounced, dropped or without a registered agent); the 405 and 400 answers
\* enqueue no trigger.
C17_StatusCodesReadError ==
    [][ServeAnswers => (hookResp'.status = AmendedStatus(hookReq') /\ NoEnqueueOnError)]_vars

\* a POST for a registered source was answered 202 although its trigger was
\* debounced
C17_Witness ==
    /\ hookPc = "done"
    /\ hookReq.method = MethodPost
    /\ extractSource(hookReq.path) = "alerts"
    /\ hookResp = HookResponse(StatusAccepted, 1, 0)
    /\ Len(hookTriggers) < TriggerCapacity

-----------------------------------------------------------------------------
(***************************************************************************)
(* Claims about Complete                                                   *)
(***************************************************************************)

\* the step in which run r returns from Complete(runAgent[r])
CompleteStep(r) == pc[r] = "executing" /\ pc'[r] = "finished"

\* C18: after Complete(agentKey) the key is absent from the in-flight set, so
\* IsRunning(agentKey) is false and the lock is free; the entries of all other
\* keys are unchanged; a TryStart that finds the key absent is never turned
\* away and returns true, so the next TryStart for the key succeeds.
C18_CompleteRemovesKey ==
    [][\A r \in Runs :
        LET a == runAgent[r] IN
        /\ CompleteStep(r) =>
              /\ a \notin DOMAIN inflight'
              /\ mu' = NoHolder
              /\ DOMAIN inflight' = (DOMAIN inflight) \ {a}
              /\ \A k \in DOMAIN inflight' : inflight'[k] = inflight[k]
        /\ (pc[r] = "check" /\ pc'[r] # "check" /\ a \notin DOMAIN inflight) =>
              pc'[r] = "insert"
        /\ (pc[r] = "insert" /\ pc'[r] # "insert") =>
              /\ a \notin DOMAIN inflight
              /\ pc'[r] = "executing" /\ ret'[r] = TRUE
              /\ inflight'[a].RunName = r
      ]_vars

\* a run of agent-a has completed, a later run of agent-a was admitted, and
\* the entry of another agent, admitted before the Complete, is still there
C18_Witness ==
    \E r1, r2, r3 \in Runs :
        /\ r1 < r3 /\ r2 < r3
        /\ runAgent[r1] = runAgent[r3] /\ runAgent[r2] # runAgent[r1]
        /\ pc[r1] = "finished"
        /\ pc[r2] = "executing" /\ runAgent[r2] \in DOMAIN inflight
        /\ inflight[runAgent[r2]].RunName = r2
        /\ pc[r3] = "executing" /\ ret[r3] = TRUE
        /\ inflight[runAgent[r3]].RunName = r3

-----------------------------------------------------------------------------
(***************************************************************************)
(* Claims about the retention sweeper                                      *)
(***************************************************************************)

\* the runs of the store that belong to the agent key
RunsOf(store, key) ==
    {r \in DOMAIN store : store[r].Namespace \o "/" \o store[r].AgentRef = key}

RetAgentKeys == {ns \o "/" \o a : ns \in RetNamespaces, a \in AgentRefs}

SmallerOf(a, b) == IF a < b THEN a ELSE b

\* C19: in every step, whatever number of sweeps came before it, every agent
\* keeps at least N of its runs, or all of them if it has fewer than N; a run is
\* deleted only when at least N runs of its agent that were created at the same
\* time or later stay behind, whatever their age; nothing but a sweep deletes.
C19_PreservesNewest ==
    [][/\ \A key \in RetAgentKeys :
            LET before == RunsOf(agentRuns, key)
                after  == RunsOf(agentRuns', key)
                N      == retConfig.PreserveMinPerAgent
            IN  /\ Cardinality(after) >= SmallerOf(N, Cardinality(before))
                /\ Cardinality(before) < N => before \subseteq after
                /\ \A d \in before \ after :
                       Cardinality({s \in after \cap before :
                                       agentRuns[s].CreationTimestamp
                                           >= agentRuns[d].CreationTimestamp}) >= N
       /\ sweeps' = sweeps => DOMAIN agentRuns \subseteq DOMAIN agentRuns'
      ]_vars

\* a sweep deleted an older run of an agent while the agent's newest run, itself
\* terminal and older than the TTL, was kept by the minimum of one
C19_Witness ==
    /\ retConfig.PreserveMinPerAgent = 1
    /\ \E d \in DOMAIN deletedRuns, s \in DOMAIN agentRuns :
          /\ deletedRuns[d] = agentRuns[s].Namespace \o "/" \o agentRuns[s].AgentRef
          /\ d < s
          /\ agentRuns[s].Phase = RunPhaseSucceeded
          /\ agentRuns[s].CompletionTime # NoTime
          /\ agentRuns[s].CompletionTime < now - retConfig.TTL

\* C20: a sweep deletes a run only if the run is terminal (Succeeded, Failed,
\* Escalated or Blocked) and its completion time, or its creation time when it
\* has no completion time, is older than the TTL; a Pending or Running run is
\* never deleted, whatever its age.
C20_OnlyTerminalPastTTL ==
    [][\A d \in (DOMAIN agentRuns) \ (DOMAIN agentRuns') :
          LET run == agentRuns[d] IN
          /\ run.Phase \in {"Succeeded", "Failed", "Escalated", "Blocked"}
          /\ run.Phase \notin {"Pending", "Running"}
          /\ IF run.CompletionTime = NoTime
             THEN run.CreationTimestamp < now - retConfig.TTL
             ELSE run.CompletionTime < now - retConfig.TTL
      ]_vars

\* with no minimum to keep, a sweep deleted a run and left a run that is not
\* terminal and was created before the cutoff
C20_Witness ==
    /\ retConfig.PreserveMinPerAgent = 0
    /\ scanResult.Deleted >= 1
    /\ deletedRuns # << >>
    /\ \E s \in DOMAIN agentRuns :
          /\ agentRuns[s].Phase \in {RunPhasePending, RunPhaseRunning}
          /\ agentRuns[s].CreationTimestamp < now - retConfig.TTL

\* C21: a sweep whose listing succeeded attempts min(Eligible, M) deletions, no
\* more than M, and attempts each of them whether or not earlier ones failed:
\* Deleted + Errors = min(Eligible, M).
C21_BatchAccounting ==
    listed =>
        /\ scanResult.Deleted + scanResult.Errors
              = SmallerOf(scanResult.Eligible, retConfig.MaxDeleteBatch)
        /\ scanResult.Deleted + scanResult.Errors <= retConfig.MaxDeleteBatch

\* more runs were eligible than the batch limit allows; of the batch one delete
\* failed and another succeeded
C21_Witness ==
    /\ listed
    /\ scanResult.Eligible > retConfig.MaxDeleteBatch
    /\ scanResult.Errors >= 1
    /\ scanResult.Deleted >= 1

-----------------------------------------------------------------------------
(***************************************************************************)
(* Claims about schedule evaluation                                        *)
(***************************************************************************)

\* the schedule can be evaluated: a known timezone and a cron expression, or
\* without one an interval, that parses
WellFormed(agent) ==
    /\ agent.Timezone \in {"", "UTC"}
    /\ agent.Cron # "" => agent.Cron \in {"*/2 * * * *", "0 0 30 2 *"}
    /\ (agent.Cron = "" /\ agent.Interval # "") => agent.Interval = "1m"

\* the scheduled fire times of the agent after the time last, as far as the
\* clock reaches: every second minute for the cron expression */2, none for
\* the 30th of February, last + 1 minute for the interval 1m
FireTimesAfter(agent, last) ==
    IF ~WellFormed(agent) THEN {}
    ELSE IF agent.Cron = "*/2 * * * *"
    THEN {f \in (last + 1) .. (MaxTime + 2) : f % 2 = 0}
    ELSE IF agent.Cron = "" /\ agent.Interval = "1m" THEN {last + 1}
    ELSE {}

\* the due predicate of the claim
ClaimedDue(agent, t) ==
    /\ ~agent.Paused
    /\ agent.Cron # "" \/ agent.Interval # ""
    /\ \/ agent.LastRunTime = NeverRun
       \/ \E f \in FireTimesAfter(agent, agent.LastRunTime) :
             /\ \A g \in FireTimesAfter(agent, agent.LastRunTime) : f <= g
             /\ t > f

\* C22: IsDue(agent, now) is true iff the agent is not paused, has a cron or
\* interval schedule, and has never run or now is strictly later than the first
\* scheduled fire time after its last run; a paused agent and a trigger-only
\* agent are never due.
C22_DueIff ==
    [][(schCall' # schCall /\ schCall'.op = "IsDue") =>
          /\ schCall'.due <=> ClaimedDue(schAgent, now)
          /\ schAgent.Paused => ~schCall'.due
          /\ (schAgent.Cron = "" /\ schAgent.Interval = "") => ~schCall'.due
      ]_vars

\* an agent that ran at minute 0 on the cron schedule */2 was asked after
\* minute 2 and is due
C22_Witness ==
    /\ schCall.op = "IsDue" /\ schCall.due /\ schCall.now > 2
    /\ schDispatches = 0
    /\ schAgent.LastRunTime = 0 /\ schAgent.Cron = CronEveryTwo

\* the scheduled fire times strictly between the time last and the time t:
\* every second minute for the cron expression */2, every minute for the
\* interval 1m
SkippedTicks(agent, last, t) ==
    IF ~WellFormed(agent) \/ agent.Paused THEN {}
    ELSE IF agent.Cron = "*/2 * * * *" THEN {f \in (last + 1) .. (t - 1) : f % 2 = 0}
    ELSE IF agent.Cron = "" /\ agent.Interval = "1m" THEN (last + 1) .. (t - 1)
    ELSE {}

\* C23: when the scheduler dispatches an agent after more than one scheduled
\* fire time has passed since its last run, and sets the last run time to the
\* dispatch time, the agent is still due: the other skipped ticks get catch-up
\* dispatches of their own.
C23_EachTickDispatched ==
    [][(/\ schDispatches' = schDispatches + 1
        /\ schAgent.LastRunTime # NeverRun
        /\ Cardinality(SkippedTicks(schAgent, schAgent.LastRunTime, now)) > 1) =>
          IsDue(schAgent', now).due
      ]_vars

\* C24: for an interval-scheduled agent NextRun returns last_run + interval
\* when the agent has run, whatever now is, and now when it has never run.
C24_IntervalNextRun ==
    [][(/\ schCall' # schCall /\ schCall'.op = "NextRun"
        /\ ~schAgent.Paused /\ schAgent.Timezone \in {"", "UTC"}
        /\ schAgent.Cron = "" /\ schAgent.Interval = "1m") =>
          /\ schCall'.err = ""
          /\ schAgent.LastRunTime # NeverRun => schCall'.time = schAgent.LastRunTime + 1
          /\ schAgent.LastRunTime = NeverRun => schCall'.time = now
      ]_vars

\* NextRun was asked after last_run + interval had passed and returned that
\* time, which lies in the past
C24_Witness ==
    /\ schCall.op = "NextRun" /\ schCall.err = ""
    /\ schAgent.Cron = "" /\ schAgent.Interval = "1m" /\ ~schAgent.Paused
    /\ schAgent.LastRunTime = 0 /\ schDispatches = 0
    /\ schCall.time = 1 /\ schCall.now > schCall.time

\* the schedule cannot be evaluated
Malformed(agent) ==
    \/ agent.Timezone = "Not/A/Timezone"
    \/ agent.Cron = "not a cron"
    \/ agent.Cron = "" /\ agent.Interval = "not-a-duration"

\* C26: for an agent with a malformed schedule IsDue never answers due = true
\* and NextRun never returns a time, for every now and every last run time,
\* never run included; unless the agent is paused or has no schedule at all,
\* the call returns an error.
C26_MalformedIsError ==
    [][(schCall' # schCall /\ schCall'.op # "none" /\ Malformed(schAgent)) =>
          /\ ~schCall'.due
          /\ schCall'.time = ZeroTime
          /\ (~schAgent.Paused /\ (schAgent.Cron # "" \/ schAgent.Interval # "")) =>
                schCall'.err # ""
      ]_vars

\* the offset of the jittered time lies in [-j/2, +j/2], and is zero when j is
\* below 100 ms; times in milliseconds
JitterWithin(j) ==
    LET offset == jitCall.result - jitCall.scheduled IN
    IF j < 100 THEN offset = 0
    ELSE -j <= 2 * offset /\ 2 * offset <= j

\* C25 as stated: j = min(30 s, 0.1 x interval), whatever the jitterPercent
\* argument is.
C25_JitterBounds ==
    LET tenth == jitCall.interval \div 10 IN
    JitterWithin(IF tenth > 30000 THEN 30000 ELSE tenth)

\* C25: ApplyJitter returns a time whose offset from the scheduled time lies in
\* [-j/2, +j/2] with j = min(30 s, p/100 x interval), where p is the
\* jitterPercent argument, or 10 when the argument is not positive; when j is
\* below 100 ms the scheduled time is returned unchanged.
C25_JitterBoundsPercent ==
    LET p    == IF jitCall.percent > 0 THEN jitCall.percent ELSE 10
        part == (jitCall.interval * p) \div 100
    IN  JitterWithin(IF part > 30000 THEN 30000 ELSE part)

\* a ten-minute interval at 10 percent: the cap of 30 s applies and the draw 0
\* gives the offset -15 s
C25_Witness ==
    /\ jitCall.interval = 600000 /\ jitCall.percent = 10
    /\ jitCall.result - jitCall.scheduled = -15000

----------------------------------------------------------------------------
(***************************************************************************)
(* Claims about the multi-cluster client factory                           *)
(***************************************************************************)
\* the key of Secret.Data the call of c asks for
RequestedKey(c) == IF cfEnv[c].Key = "" THEN "kubeconfig" ELSE cfEnv[c].Key

\* the bytes the call of c asks for, at the resourceVersion it read
RequestedBytes(c) ==
    [namespace |-> cfEnv[c].Namespace, name |-> cfEnv[c].SecretRef,
     key |-> RequestedKey(c), version |-> cfSecret[c].resourceVersion]

\* the cache entries of the Secret, key and resourceVersion of the call of c
EntriesFor(c) ==
    {k \in DOMAIN cfCache :
        /\ k.namespace = cfEnv[c].Namespace
        /\ k.secretName = cfEnv[c].SecretRef
        /\ k.secretKey = RequestedKey(c)
        /\ k.resourceVersion = cfSecret[c].resourceVersion}

\* every cached client was built from the bytes its key names
CacheEntriesMatch ==
    \A k \in DOMAIN cfCache :
        cfCache[k].kubeconfig =
            [namespace |-> k.namespace, name |-> k.secretName, key |-> k.secretKey,
             version |-> k.resourceVersion]

\* the steps of the call of c
ReadsSecret(c)    == cfPc[c] \in {"idle", "done"} /\ cfPc'[c] = "check"
LooksUp(c)        == cfPc[c] = "check" /\ cfPc'[c] # "check"
ReturnsClient(c)  == cfPc[c] \in {"check", "build"} /\ cfPc'[c] = "done" /\ cfRet'.err = ""

C27Step(c) ==
    \* a call reads the Secret as it is now
    /\ ReadsSecret(c) =>
          cfSecret'[c].resourceVersion =
              secretRv[[namespace |-> cfEnv'[c].Namespace, name |-> cfEnv'[c].SecretRef]]
    \* the client returned was built from the bytes at the version read, and is cached
    /\ ReturnsClient(c) =>
          /\ cfRet'.client.kubeconfig = RequestedBytes(c)
          /\ \E k \in DOMAIN cfCache' :
                /\ cfCache'[k] = cfRet'.client
                /\ k.resourceVersion = cfSecret[c].resourceVersion
    \* a lookup that finds the entry builds nothing and leaves the cache alone
    /\ (LooksUp(c) /\ EntriesFor(c) # {}) =>
          /\ cfPc'[c] = "done"
          /\ cfRet'.err = ""
          /\ cfCache' = cfCache

\* C27: ClientForEnvironment returns a cached client only if it was built from
\* the referenced secret at the same (namespace, secret name, key,
\* resourceVersion); once the resourceVersion has changed, a call that reads
\* the secret returns a client built from the new content, never the one built
\* from the older version; a call that finds its entry builds no client and
\* leaves the cache, and so its size, unchanged.
C27_CachedOnlyForSameVersion ==
    [](CacheEntriesMatch) /\ [][\A c \in FactoryCallers : C27Step(c)]_vars

\* the secret ns1/s1 was written, clients of both versions are cached, the last
\* call returned the client of the new version, and a repeated call stands at
\* the lookup with its entry present
C27_Witness ==
    /\ secretRv[[namespace |-> "ns1", name |-> "s1"]] = 2
    /\ \E k1, k2 \in DOMAIN cfCache :
          /\ k1.secretName = "s1" /\ k1.namespace = "ns1" /\ k1.resourceVersion = 1
          /\ k2.secretName = "s1" /\ k2.namespace = "ns1" /\ k2.resourceVersion = 2
          /\ k1.secretKey = k2.secretKey
          /\ cfRet.client = cfCache[k2]
    /\ \E c \in FactoryCallers :
          /\ cfPc[c] = "check"
          /\ cfSecret[c].resourceVersion = 2
          /\ EntriesFor(c) # {}

\* the cache entries built from the Secret namespace/name
EntriesOfSecret(m, namespace, name) ==
    {k \in DOMAIN m : k.namespace = namespace /\ k.secretName = name}

\* what a step InvalidateSecret(namespace, name) does to the cache
InvalidateEffect(namespace, name) ==
    /\ EntriesOfSecret(cfCache', namespace, name) = {}
    /\ DOMAIN cfCache' = DOMAIN cfCache \ EntriesOfSecret(cfCache, namespace, name)
    /\ \A k \in DOMAIN cfCache' : cfCache'[k] = cfCache[k]

InvalidateRemovesOnlyTheSecret ==
    \A id \in SecretIds :
        InvalidateSecret(id.namespace, id.name) => InvalidateEffect(id.namespace, id.name)

\* C28 as stated: InvalidateSecret(namespace, name) removes every cache entry
\* built from that secret, for all keys and all resource versions, and no
\* entry of another secret; the next ClientForEnvironment call for the
\* invalidated secret finds no entry and builds a new client.
C28_InvalidateThenNextBuilds ==
    [][/\ InvalidateRemovesOnlyTheSecret
       /\ \A c \in FactoryCallers :
             (LooksUp(c) /\ cfFirst[c] # "no") => cfPc'[c] = "build"]_vars

\* C28, narrowed: the same removal; the next call for the invalidated secret
\* builds a new client when no other call for that secret was between its
\* read of the secret and its return at the invalidation or since.
C28_InvalidateThenNextBuildsAlone ==
    [][/\ InvalidateRemovesOnlyTheSecret
       /\ \A c \in FactoryCallers :
             (LooksUp(c) /\ cfFirst[c] = "clean") => cfPc'[c] = "build"]_vars

\* a client of ns1/s1 was returned and its entries are gone, an entry of ns2/s1
\* is still cached, and the next call for ns1/s1 stands at the build
C28_Witness ==
    /\ cfRet.client.kubeconfig.namespace = "ns1"
    /\ EntriesOfSecret(cfCache, "ns1", "s1") = {}
    /\ EntriesOfSecret(cfCache, "ns2", "s1") # {}
    /\ \E c \in FactoryCallers :
          /\ cfPc[c] = "build"
          /\ cfFirst[c] = "clean"
          /\ cfEnv[c].Namespace = "ns1"

----------------------------------------------------------------------------
(***************************************************************************)
(* Claims about the cleanup chain and the connectivity check               *)
(***************************************************************************)
\* the errors of the links from i on, link by link
RECURSIVE ErrorsFrom(_, _)
ErrorsFrom(links, i) ==
    IF i > Len(links) THEN <<>>
    ELSE [j \in 1 .. links[i] |-> [link |-> i, n |-> j]] \o ErrorsFrom(links, i + 1)

\* C29: a cleanup chain of links f1..fn invokes every link exactly once and in
\* order, whether or not earlier links returned errors, and returns the errors
\* of all links together.
C29_ChainRunsEveryLink ==
    /\ chPc = "loop" =>
          /\ Len(chCalls) <= Len(chLinks)
          /\ \A k \in 1 .. Len(chCalls) : chCalls[k] = k
    /\ chPc = "done" =>
          /\ Len(chCalls) = Len(chLinks)
          /\ \A k \in 1 .. Len(chLinks) : chCalls[k] = k
          /\ chAllErrs = ErrorsFrom(chLinks, 1)

\* a chain of three links has returned: the first and the last link failed,
\* the one between them did not, and all three were called
C29_Witness ==
    /\ chPc = "done"
    /\ Len(chLinks) = 3
    /\ chLinks[1] > 0 /\ chLinks[2] = 0 /\ chLinks[3] > 0
    /\ chCalls = <<1, 2, 3>>
    /\ Len(chAllErrs) = chLinks[1] + chLinks[3]

\* C30 as stated: pre-run connectivity checks are informational, never fatal:
\* neither an unhealthy mesh VPN sidecar nor an unreachable endpoint makes
\* PreRunCheck return an error.
C30_PreRunCheckNeverFails == connCall.called => connCall.err = ""

----------------------------------------------------------------------------
(***************************************************************************)
(* Claims about runs that outlive their in-flight entry                    *)
(***************************************************************************)
\* the step in which the goroutine of run r calls Complete
CompletesRun(r) == pc[r] = "executing" /\ pc'[r] = "finished"

\* C31 as stated: Complete removes an in-flight entry only on behalf of the
\* run it was admitted for: the Complete of a run whose entry was evicted by
\* CleanStale leaves the entry of the run admitted after it in place.
C31_CompleteOnlyOwnEntry ==
    [][\A r \in Runs :
          CompletesRun(r) =>
              \A k \in DOMAIN inflight :
                  inflight[k].RunName # r =>
                      k \in DOMAIN inflight' /\ inflight'[k] = inflight[k]]_vars

----------------------------------------------------------------------------
(***************************************************************************)
(* Claims about dropped triggers and repeated registrations                *)
(***************************************************************************)
\* the debounce keys whose last fire a step records
FiresRecorded ==
    {k \in DOMAIN debLast' : k \notin DOMAIN debLast \/ debLast'[k] # debLast[k]}

\* C32 as stated: ServeHTTP starts the debounce window of a (source, agent) key
\* only with a trigger that is enqueued: whenever a turn of its loop records a
\* fire for the key, a trigger for that agent is placed on the channel.
C32_WindowOnlyWhenEnqueued ==
    [][(hookPc = "loop" /\ FiresRecorded # {}) =>
          /\ Len(hookTriggers') = Len(hookTriggers) + 1
          /\ hookTriggers'[Len(hookTriggers')].AgentKey = hookAgents[hookIdx]]_vars

\* the distinct agents of the list ServeHTTP walks
DistinctAgents == {hookAgents[i] : i \in DOMAIN hookAgents}

\* C40 as stated: RegisterAgent is idempotent: after the same (source, agent)
\* pair was registered more than once a webhook for the source reports the
\* agents count of a single registration and enqueues at most one trigger for
\* the agent.
C40_RegisterIdempotent ==
    [][(hookPc = "loop" /\ hookPc' = "done") =>
          /\ hookResp'.agents = Cardinality(DistinctAgents)
          /\ hookResp'.triggered <= Cardinality(DistinctAgents)]_vars

----------------------------------------------------------------------------
(***************************************************************************)
(* Claims about escalations that were not delivered                        *)
(***************************************************************************)
\* C33 as stated: Escalate yields the policy proceed only after the escalation
\* notification was delivered: a result with Sent = false never carries
\* TimedOut = true with the policy proceed.
C33_ProceedOnlyIfSent ==
    (escResult.TimedOut /\ escResult.Policy = "proceed") => escResult.Sent

----------------------------------------------------------------------------
(***************************************************************************)
(* Claims about keys whose signing failed                                  *)
(***************************************************************************)
\* C34 as stated: every private key RequestSSHCredentials generated, on the
\* success path and on every failure path, is tracked, so that no generated
\* key buffer holds a non-zero byte after Cleanup.
C34_EveryGeneratedKeyZeroed ==
    credPc = "returned" =>
        \A i \in DOMAIN keyMem : \A j \in DOMAIN keyMem[i] : keyMem[i][j] = 0

----------------------------------------------------------------------------
(***************************************************************************)
(* Claims about concurrent callers of the client factory                   *)
(***************************************************************************)
\* the step in which the call of c has built a client and stores it
BuildsClient(c) == cfPc[c] = "build" /\ cfPc'[c] = "done" /\ cfRet'.err = ""

\* C35 as stated: concurrent ClientForEnvironment calls for one (namespace,
\* secret name, key, resourceVersion) build at most one client: no call builds
\* and returns a client of its own while a client for its key is cached.
C35_AtMostOneBuildPerKey ==
    [][\A c \in FactoryCallers : BuildsClient(c) => EntriesFor(c) = {}]_vars

----------------------------------------------------------------------------
(***************************************************************************)
(* Claims about the cancel functions of registered runs                    *)
(***************************************************************************)
\* the runs that passed their cancel function to RegisterRun, while no
\* DeregisterRun has been called at all
RegisteredNeverRemoved ==
    IF \E q \in Runs : regKey[q] = Gone THEN {}
    ELSE {r \in Runs : regKey[r] \in RunKeys}

\* C36 as stated: every cancel function passed to RegisterRun and not removed
\* by a later DeregisterRun of its key is invoked exactly once when the drain
\* reaches its deadline with runs in flight; none is lost, none invoked twice.
C36_EveryCancelInvokedOnce ==
    [][(drainPc = "cancel" /\ drainPc' = "done") =>
          \A r \in RegisteredNeverRemoved : cancelCalls'[r] = 1]_vars

----------------------------------------------------------------------------
(***************************************************************************)
(* Claims about the declared tiers of a tool                               *)
(***************************************************************************)
\* the tiers the tool of the call declares
DeclaredTiers ==
    CASE clsTool = "aws"   -> AWSSupportedTiers
      [] clsTool = "azure" -> AzureSupportedTiers
      [] clsTool = "sql"   -> SQLSupportedTiers

\* C37 as stated: a tool's classifier only produces tiers the tool declares:
\* for every argument value the tier ClassifyAction returns is a member of
\* Capability().SupportedTiers.
C37_TierIsDeclared == clsResult # NoResult => clsResult.Tier \in DeclaredTiers

\* the same for the two tools whose classifier is in the source
C37_CloudTierIsDeclared ==
    (clsResult # NoResult /\ clsTool \in {"aws", "azure"}) =>
        clsResult.Tier \in DeclaredTiers

----------------------------------------------------------------------------
(***************************************************************************)
(* Claims about the authorization decision                                 *)
(***************************************************************************)
\* a policy of the engine that matches the user of the call, grants a role
\* permitting the action and has the resource in its scope
PermittingPolicies ==
    {i \in DOMAIN rbacEngine.policies :
        LET p == rbacEngine.policies[i]
        IN  /\ matchesSubject(rbacCall.user, p.Subjects)
            /\ rolePermits(p.Role, rbacCall.action)
            /\ (rbacCall.resource = <<>> \/ inScope(p.Scope, rbacCall.resource))}

\* C38 as stated: Authorize allows a request whenever at least one policy
\* matching the user grants a role permitting the action and has the resource
\* in its scope; another matching policy with a higher role and a narrower
\* scope never turns the decision into a denial.
C38_AllowedIfSomePolicyPermits ==
    (rbacCall.called /\ ~rbacCall.user.isNil /\ PermittingPolicies # {}) =>
        rbacCall.decision.Allowed

----------------------------------------------------------------------------
(***************************************************************************)
(* Claims about the convergence of retention                               *)
(***************************************************************************)
\* the run is terminal, older than the TTL and at least N runs of its agent
\* were created after it
EligibleRun(r) ==
    /\ r \in DOMAIN agentRuns
    /\ agentRuns[r].Phase \in {RunPhaseSucceeded, RunPhaseFailed, RunPhaseEscalated,
                               RunPhaseBlocked}
    /\ (IF agentRuns[r].CompletionTime = NoTime
        THEN agentRuns[r].CreationTimestamp
        ELSE agentRuns[r].CompletionTime) < now - retConfig.TTL
    /\ Cardinality({q \in DOMAIN agentRuns :
                       /\ agentRuns[q].Namespace = agentRuns[r].Namespace
                       /\ agentRuns[q].AgentRef = agentRuns[r].AgentRef
                       /\ agentRuns[q].CreationTimestamp >
                              agentRuns[r].CreationTimestamp})
           >= retConfig.PreserveMinPerAgent

\* C39 as stated, the part on failing deletions: when some deletions fail
\* persistently, every other eligible run is still eventually deleted.
C39_OthersEventuallyDeleted ==
    \A r \in 1 .. MaxListed :
        (EligibleRun(r) /\ r \notin undeletable) ~> (r \notin DOMAIN agentRuns)

\* the runs of the cluster belong to one agent and no two were created at the
\* same time: every scan builds the same list
OneOrder ==
    \A i, j \in DOMAIN agentRuns :
        i # j => /\ agentRuns[i].AgentRef = agentRuns[j].AgentRef
                 /\ agentRuns[i].CreationTimestamp # agentRuns[j].CreationTimestamp

\* the same where the order of the list is not a matter of chance
C39_OthersEventuallyDeletedOneOrder ==
    \A r \in 1 .. MaxListed :
        (OneOrder /\ EligibleRun(r) /\ r \notin undeletable) ~> (r \notin DOMAIN agentRuns)

=============================================================================
